---------------------------- MODULE Spec2Model ----------------------------
(***************************************************************************)
(* Aegis parental control: the interval engine (domain), the client store  *)
(* (jsonfile.Repository), the long-poll config endpoint (Handler) and the  *)
(* agent's enforcement loop (client.ApplyAccessIfNeeded, program.run).     *)
(*                                                                         *)
(* Time is an integer number of seconds; instant 0 is a Monday, 00:00 in   *)
(* the server's zone, and every day has 24 hours.                          *)
(***************************************************************************)
EXTENDS Integers, Sequences, FiniteSets, TLC

VARIABLES
    now,          \* the wall clock (time.Now())
    \* ---- agent process (program.run) ----
    agentPc,      \* "boot" before the initial fetch, "run" in the ticker loop
    currentConfig,\* *domain.ClientConfig held by the agent, NoConfig when nil
    lastVersion,  \* version string the fetcher sends, "" (= NoVersion) at start
    lastState,    \* map username -> allowed, as returned by ApplyAccessIfNeeded
    recs,         \* history: the last two ApplyAccessIfNeeded calls, oldest first
    \* ---- client store (jsonfile.Repository) ----
    clients,      \* r.clients: map client id -> clientState
    file,         \* what the file at r.filePath holds (persistedData.Clients)
    subscribers,  \* r.subscribers: map client id -> list of channels
    chans,        \* the channels Subscribe made, in order: for each the number of
                  \* buffered signals (capacity 1)
    mu,           \* r.mu: NoHolder, or the mutation that has fanned out and not yet saved
    nextUuid,     \* uuid.New(): the next fresh identifier
    missed,       \* history: channels registered when the last mutation returned
                  \* to which that mutation had not posted
    \* ---- control plane (Handler) ----
    bumps,        \* map client id -> admin handlers between their store call and
                  \* their IncrementConfigVersion call
    reqs          \* map request -> state of one ServeConfig call

agentVars == <<agentPc, currentConfig, lastVersion, lastState, recs>>
storeVars == <<clients, file, subscribers, chans, mu, nextUuid, missed>>
serverVars == <<storeVars, bumps, reqs>>
vars == <<now, agentVars, serverVars>>

(***************************************************************************)
(* Program constants.                                                      *)
(***************************************************************************)
Minute == 60
Hour == 3600
Day == 86400
IntervalWindowHours == 48
lockPasswordLen == 20
unlockPasswordLen == 6
maxRequests == 10
longPollTimeout == 60
maxLongPollInterval == 55

NoVersion == 0        \* the empty version string ""
NoConfig == [nil |-> TRUE]

(***************************************************************************)
(* Small helpers for Go maps and slices.                                   *)
(***************************************************************************)
EmptyMap == <<>>
MapGet(m, k, zero) == IF k \in DOMAIN m THEN m[k] ELSE zero
MapPut(m, k, v) == [x \in (DOMAIN m) \cup {k} |-> IF x = k THEN v ELSE m[x]]
Range(s) == {s[i] : i \in DOMAIN s}
Last(s) == s[Len(s)]

RECURSIVE FlatMap(_, _)
\* Concatenation of Op(s[1]), Op(s[2]), ... (append in a range loop).
FlatMap(Op(_), s) ==
    IF s = <<>> THEN <<>> ELSE Op(Head(s)) \o FlatMap(Op, Tail(s))

(***************************************************************************)
(* domain/schedule.go                                                      *)
(* A "HH:MM" string is modelled by the parts strings.Split(s, ":") yields, *)
(* each part by what strconv.Atoi makes of it.                             *)
(***************************************************************************)
Num(n) == [ok |-> TRUE, n |-> n]
NotANumber == [ok |-> FALSE, n |-> 0]
HHMM(h, m) == <<Num(h), Num(m)>>
ParseErr == [err |-> TRUE, hour |-> 0, minute |-> 0]

ParseTime(s) ==
    IF Len(s) # 2 THEN ParseErr
    ELSE IF ~s[1].ok THEN ParseErr
    ELSE IF ~s[2].ok THEN ParseErr
    ELSE IF s[1].n < 0 \/ s[1].n > 23 \/ s[2].n < 0 \/ s[2].n > 59 THEN ParseErr
    ELSE [err |-> FALSE, hour |-> s[1].n, minute |-> s[2].n]

Weekday(t) == (t \div Day) % 7
DayKey(wd) == <<"monday", "tuesday", "wednesday", "thursday", "friday",
                "saturday", "sunday">>[wd + 1]
Midnight(t) == t - (t % Day)

(***************************************************************************)
(* domain: ComputeAllowedIntervals and its helpers.                        *)
(***************************************************************************)
Iv(s, e) == [Start |-> s, End |-> e]

parseDayInterval(day, startStr, endStr) ==
    LET ps == ParseTime(startStr)
        pe == ParseTime(endStr)
        start == day + ps.hour * Hour + ps.minute * Minute
        end == day + pe.hour * Hour + pe.minute * Minute
    IN  IF ps.err \/ pe.err THEN [err |-> TRUE, start |-> 0, end |-> 0]
        ELSE [err |-> FALSE, start |-> start,
              end |-> IF ~(end > start) THEN end + 24 * Hour ELSE end]

RECURSIVE InsertSorted(_, _)
InsertSorted(iv, s) ==
    IF s = <<>> THEN <<iv>>
    ELSE IF iv.Start < Head(s).Start THEN <<iv>> \o s
    ELSE <<Head(s)>> \o InsertSorted(iv, Tail(s))

RECURSIVE SortByStart(_)
\* sort.Slice with less = Start.Before
SortByStart(s) ==
    IF s = <<>> THEN <<>> ELSE InsertSorted(Head(s), SortByStart(Tail(s)))

RECURSIVE MergeLoopLastEnd(_, _)
\* Mutant: a joined range always takes the end of the later range.
MergeLoopLastEnd(merged, rest) ==
    IF rest = <<>> THEN merged
    ELSE IF Head(rest).Start <= Last(merged).End
         THEN MergeLoopLastEnd(
                [merged EXCEPT ![Len(merged)] = Iv(Last(merged).Start, Head(rest).End)],
                Tail(rest))
         ELSE MergeLoopLastEnd(Append(merged, Head(rest)), Tail(rest))

RECURSIVE MergeLoop(_, _)
MergeLoop(merged, rest) ==
    IF rest = <<>> THEN merged
    ELSE LET last == Last(merged)
             x == Head(rest)
         IN  IF x.Start <= last.End
             THEN MergeLoop(
                    [merged EXCEPT ![Len(merged)] =
                        IF x.End > last.End THEN Iv(last.Start, x.End) ELSE last],
                    Tail(rest))
             ELSE MergeLoop(Append(merged, x), Tail(rest))

\* Mutant: the intervals are sorted and not merged.
SortOnly(intervals) == SortByStart(intervals)

mergeIntervals(intervals) ==
    IF Len(intervals) = 0 THEN <<>>
    ELSE LET sorted == SortByStart(intervals)
         IN  MergeLoop(<<Head(sorted)>>, Tail(sorted))

subtractBlockFromIntervals(intervals, blockStart, blockUntil) ==
    LET Cut(iv) ==
            IF ~(iv.End > blockStart) \/ ~(iv.Start < blockUntil) THEN <<iv>>
            ELSE (IF iv.Start < blockStart THEN <<Iv(iv.Start, blockStart)>> ELSE <<>>)
                 \o (IF iv.End > blockUntil THEN <<Iv(blockUntil, iv.End)>> ELSE <<>>)
    IN  FlatMap(Cut, intervals)

RECURSIVE ApplyBlocks(_, _, _)
ApplyBlocks(intervals, blocks, now0) ==
    IF blocks = <<>> THEN intervals
    ELSE LET b == Head(blocks)
         IN  ApplyBlocks(
                IF b.End > now0 /\ b.Start < b.End
                THEN subtractBlockFromIntervals(intervals, b.Start, b.End)
                ELSE intervals,
                Tail(blocks), now0)

\* Mutant: a boundary equal to now is taken as well.
LowerFromNow(nextChange, c, now0) == IF c >= now0 /\ c < nextChange THEN c ELSE nextChange

Lower(nextChange, c, now0) == IF c > now0 /\ c < nextChange THEN c ELSE nextChange

RECURSIVE LowerAll(_, _, _)
LowerAll(nextChange, cs, now0) ==
    IF cs = <<>> THEN nextChange
    ELSE LowerAll(Lower(nextChange, Head(cs), now0), Tail(cs), now0)

ComputeAllowedIntervals(now1, schedule, tempAccess, blocks, includePast) ==
    LET now0 == IF ~includePast THEN now1 - (now1 % Minute) ELSE now1
        windowEnd == now0 + IntervalWindowHours * Hour
        today == Midnight(now0)
        Clip(start, end) ==
            IF ~includePast /\ end < now0 THEN <<>>
            ELSE IF start > windowEnd THEN <<>>
            ELSE LET s2 == IF ~includePast /\ start < now0 THEN now0 ELSE start
                     e2 == IF end > windowEnd THEN windowEnd ELSE end
                 IN  IF e2 > s2 THEN <<Iv(s2, e2)>> ELSE <<>>
        OfDay(dayOffset) ==
            LET day == today + dayOffset * Day
                dayKey == DayKey(Weekday(day))
                One(iv) == LET p == parseDayInterval(day, iv.Start, iv.End)
                           IN  IF p.err THEN <<>> ELSE Clip(p.start, p.end)
            IN  IF dayKey \notin DOMAIN schedule THEN <<>>
                ELSE FlatMap(One, schedule[dayKey])
        fromSchedule == OfDay(0) \o OfDay(1)
        OneTemp(ta) == Clip(ta.Start, ta.End)
        merged == mergeIntervals(fromSchedule \o FlatMap(OneTemp, tempAccess))
        intervals == ApplyBlocks(merged, blocks, now0)
        IvBounds(iv) == <<iv.Start, iv.End>>
        TaEnds(ta) == <<ta.End>>
        BBounds(b) == <<b.Start, b.End>>
        nextChange ==
            LowerAll(windowEnd,
                     FlatMap(IvBounds, intervals) \o FlatMap(TaEnds, tempAccess)
                        \o FlatMap(BBounds, blocks),
                     now0)
    IN  [intervals |-> intervals, nextChange |-> nextChange]

(***************************************************************************)
(* usecase/client: ApplyAccessIfNeeded                                     *)
(***************************************************************************)
\* Mutant: the end of an interval counts as inside it.
isWithinClosed(t, intervals) ==
    \E i \in DOMAIN intervals : t >= intervals[i].Start /\ t <= intervals[i].End

isWithinIntervals(t, intervals) ==
    \E i \in DOMAIN intervals : t >= intervals[i].Start /\ t < intervals[i].End

unlockPassword == [random |-> FALSE, len |-> unlockPasswordLen]
generateRandomPassword(length) == [random |-> TRUE, len |-> length]

SetPasswordCall(u, pw, ok) ==
    [op |-> "SetPassword", user |-> u, password |-> pw, ok |-> ok]
DisconnectCall(u, ok) ==
    [op |-> "DisconnectUserSession", user |-> u, password |-> unlockPassword, ok |-> ok]

\* Mutant: the last applied state is ignored (the older ApplyAccess).
CurrentOfIgnored(lastSt, username) == FALSE

\* current := lastState[uc.Username] (apply_access.go:32): a missing key reads false.
CurrentOf(lastSt, username) == MapGet(lastSt, username, FALSE)

\* Mutant: a failed unlock is recorded as applied.
UnlockNoRetry(acc, u, spOk) ==
    [state |-> MapPut(acc.state, u, TRUE),
     calls |-> Append(acc.calls, SetPasswordCall(u, unlockPassword, spOk))]

\* apply_access.go:41-47: required, the account was last known blocked.
Unlock(acc, u, spOk) ==
    IF ~spOk
    THEN [state |-> MapPut(acc.state, u, FALSE),
          calls |-> Append(acc.calls, SetPasswordCall(u, unlockPassword, FALSE))]
    ELSE [state |-> MapPut(acc.state, u, TRUE),
          calls |-> Append(acc.calls, SetPasswordCall(u, unlockPassword, TRUE))]

\* Mutant: the session is disconnected whether or not the password was set.
LockAlwaysDisconnect(acc, u, spOk, dcOk) ==
    [state |-> MapPut(acc.state, u, ~spOk),
     calls |-> acc.calls \o <<SetPasswordCall(u, generateRandomPassword(lockPasswordLen), spOk),
                              DisconnectCall(u, dcOk)>>]

\* apply_access.go:48-59: not required, the account was last known allowed.
Lock(acc, u, spOk, dcOk) ==
    LET randomPass == generateRandomPassword(lockPasswordLen)
    IN  IF ~spOk
        THEN [state |-> MapPut(acc.state, u, TRUE),
              calls |-> Append(acc.calls, SetPasswordCall(u, randomPass, FALSE))]
        ELSE [state |-> MapPut(acc.state, u, FALSE),
              calls |-> acc.calls \o <<SetPasswordCall(u, randomPass, TRUE),
                                       DisconnectCall(u, dcOk)>>]

\* One iteration of the loop over config.Users; spOk/dcOk are the results the
\* account-control capability gives to this iteration's calls.
ApplyOne(acc, uc, t, lastSt, spOk, dcOk) ==
    LET required == isWithinIntervals(t, uc.AllowedIntervals)
        current == CurrentOf(lastSt, uc.Username)
    IN  IF required = current
        THEN [state |-> MapPut(acc.state, uc.Username, required), calls |-> acc.calls]
        ELSE IF required THEN Unlock(acc, uc.Username, spOk)
        ELSE Lock(acc, uc.Username, spOk, dcOk)

RECURSIVE ApplyLoop(_, _, _, _, _, _, _)
ApplyLoop(acc, users, i, t, lastSt, spOk, dcOk) ==
    IF i > Len(users) THEN acc
    ELSE ApplyLoop(ApplyOne(acc, users[i], t, lastSt, spOk[i], dcOk[i]),
                   users, i + 1, t, lastSt, spOk, dcOk)

\* Mutant: no early return for a config without users.
ApplyAlways(config, t, lastSt, spOk, dcOk) ==
    ApplyLoop([state |-> EmptyMap, calls |-> <<>>], config.Users, 1, t,
              lastSt, spOk, dcOk)

ApplyAccessIfNeeded(config, t, lastSt, spOk, dcOk) ==
    IF Len(config.Users) = 0 THEN [state |-> lastSt, calls |-> <<>>]
    ELSE ApplyLoop([state |-> EmptyMap, calls |-> <<>>], config.Users, 1, t,
                   lastSt, spOk, dcOk)

(***************************************************************************)
(* cmd/aegis-client: program.run.  The fetcher goroutine and the main      *)
(* goroutine (initial fetch, then the 10 s ticker) share currentConfig,    *)
(* lastVersion; lastState belongs to the main goroutine.                   *)
(***************************************************************************)
FetchError == [err |-> TRUE]

\* The values `required` takes for each username of config.Users at instant t,
\* in the order of the entries (one value unless the config lists the username
\* more than once).
RECURSIVE RequiredSeq(_, _, _)
RequiredSeq(users, u, t) ==
    IF users = <<>> THEN <<>>
    ELSE (IF Head(users).Username = u
          THEN <<isWithinIntervals(t, Head(users).AllowedIntervals)>> ELSE <<>>)
         \o RequiredSeq(Tail(users), u, t)
RequiredOf(users, t) ==
    [u \in {users[i].Username : i \in DOMAIN users} |-> RequiredSeq(users, u, t)]

IsSetPassword(c) == c.op = "SetPassword"
IsDisconnect(c) == c.op = "DisconnectUserSession"
\* Positions in calls of the calls for user u.
CallsFor(u, calls) == {i \in DOMAIN calls : calls[i].user = u}
SetPasswordsFor(u, calls) == {i \in CallsFor(u, calls) : IsSetPassword(calls[i])}
DisconnectsFor(u, calls) == {i \in CallsFor(u, calls) : IsDisconnect(calls[i])}
UsersOf(calls) == {calls[i].user : i \in DOMAIN calls}
\* The last call for u was an `op` call and failed.
LastFailed(u, calls, op) ==
    \E i \in CallsFor(u, calls) :
        /\ \A j \in CallsFor(u, calls) : j <= i
        /\ calls[i].op = op /\ ~calls[i].ok
\* The last SetPassword call for u succeeded.
LastSetPasswordOk(u, calls) ==
    \E i \in SetPasswordsFor(u, calls) :
        /\ \A j \in SetPasswordsFor(u, calls) : j <= i
        /\ calls[i].ok

\* What one ApplyAccessIfNeeded call was given and did.
RecOf(config, t, before, res) ==
    [required |-> RequiredOf(config.Users, t), before |-> before,
     after |-> res.state, calls |-> res.calls]

\* Of the reconcile before the last one the history keeps, per user: the
\* required values of its entries, whether some SetPassword for it failed /
\* succeeded, and whether its last call was a failed SetPassword / a failed
\* DisconnectUserSession.
Older(r) ==
    [required |-> r.required,
     spFailed |-> {u \in UsersOf(r.calls) :
                     \E i \in SetPasswordsFor(u, r.calls) : ~r.calls[i].ok},
     spOk |-> {u \in UsersOf(r.calls) :
                     \E i \in SetPasswordsFor(u, r.calls) : r.calls[i].ok},
     spLastFailed |-> {u \in UsersOf(r.calls) : LastFailed(u, r.calls, "SetPassword")},
     dcLastFailed |-> {u \in UsersOf(r.calls) :
                         LastFailed(u, r.calls, "DisconnectUserSession")}]
Remember(r) == IF recs = <<>> THEN <<r>> ELSE <<Older(Last(recs)), r>>

Outcomes(config) == [1..Len(config.Users) -> BOOLEAN]

\* main.go:126-138: fetcher.FetchConfig(ctx, "") and the first apply with nil.
InitialFetch(fetched) ==
    /\ agentPc = "boot"
    /\ agentPc' = "run"
    /\ IF fetched = FetchError
       THEN UNCHANGED <<currentConfig, lastVersion, lastState, recs>>
       ELSE \E spOk \in Outcomes(fetched), dcOk \in Outcomes(fetched) :
              LET res == ApplyAccessIfNeeded(fetched, now, EmptyMap, spOk, dcOk)
              IN  /\ currentConfig' = fetched
                  /\ lastVersion' = fetched.Version
                  /\ lastState' = res.state
                  /\ recs' = Remember(RecOf(fetched, now, EmptyMap, res))

\* main.go:103-123: one iteration of the fetch goroutine that got a body.
FetcherLoop(fetched) ==
    /\ fetched # FetchError
    /\ fetched.Version # lastVersion
    /\ currentConfig' = fetched
    /\ lastVersion' = fetched.Version
    /\ UNCHANGED <<agentPc, lastState, recs>>

\* main.go:150-153: a tick of stateTicker.
TickerReconcile ==
    /\ agentPc = "run"
    /\ currentConfig # NoConfig
    /\ \E spOk \in Outcomes(currentConfig), dcOk \in Outcomes(currentConfig) :
          LET res == ApplyAccessIfNeeded(currentConfig, now, lastState, spOk, dcOk)
          IN  /\ lastState' = res.state
              /\ recs' = Remember(RecOf(currentConfig, now, lastState, res))
    /\ UNCHANGED <<agentPc, currentConfig, lastVersion>>

AgentInit ==
    /\ agentPc = "boot"
    /\ currentConfig = NoConfig
    /\ lastVersion = NoVersion
    /\ lastState = EmptyMap
    /\ recs = <<>>


(***************************************************************************)
(* usecase/server: ComputeClientConfig                                     *)
(***************************************************************************)
NoUser == 0           \* the empty user id ""
NilState == [nil |-> TRUE]

\* The ranges of the requests rs, in order.
AsRanges(rs) == [i \in DOMAIN rs |-> [Start |-> rs[i].Start, End |-> rs[i].Until]]
ForUser(rs, uid) == SelectSeq(rs, LAMBDA x : x.UserID = uid)
NotForUser(rs, uid) == SelectSeq(rs, LAMBDA x : x.UserID # uid)
MinOf(ts) == CHOOSE m \in Range(ts) : \A x \in Range(ts) : m <= x

UserIntervals(t, state, u, includePast) ==
    ComputeAllowedIntervals(
        t, u.Schedule,
        AsRanges(ForUser(state.TemporaryAccessRequests, u.ID)),
        AsRanges(ForUser(state.BlockRequests, NoUser))
            \o AsRanges(ForUser(state.BlockRequests, u.ID)),
        includePast)

\* Mutant: the config is returned without the version.
ConfigUnversioned(state, per) ==
    [Users |-> [i \in DOMAIN state.Users |->
                    [Username |-> state.Users[i].Username,
                     AllowedIntervals |-> per[i].intervals]],
     Version |-> NoVersion]

ConfigOf(state, per) ==
    [Users |-> [i \in DOMAIN state.Users |->
                    [Username |-> state.Users[i].Username,
                     AllowedIntervals |-> per[i].intervals]],
     Version |-> state.LastSentVersion]

NextChangeOf(t, state, per) ==
    IF state.Users = <<>> THEN t + 48 * Hour
    ELSE MinOf([i \in DOMAIN per |-> per[i].nextChange])

PerUser(t, state, includePast) ==
    [i \in DOMAIN state.Users |-> UserIntervals(t, state, state.Users[i], includePast)]

ClientConfigOf(t, state, per) ==
    [config |-> ConfigOf(state, per), nextChange |-> NextChangeOf(t, state, per)]

ComputeClientConfig(t, state, includePast) ==
    ClientConfigOf(t, state, PerUser(t, state, includePast))

(***************************************************************************)
(* jsonfile.Repository                                                     *)
(***************************************************************************)
NoHolder == [held |-> FALSE]
Holder(clientID, posted) == [held |-> TRUE, client |-> clientID, posted |-> posted]

\* load(): what a persisted client becomes in memory.
Loaded(pc) ==
    [ID |-> pc.ID, Users |-> pc.Users, BlockRequests |-> pc.BlockRequests,
     TemporaryAccessRequests |-> pc.TemporaryAccessRequests,
     LastSentIntervals |-> EmptyMap, LastSentVersion |-> NoVersion,
     ComputedConfig |-> NoConfig]

\* saveLocked(): the persisted form of r.clients.
Persisted(cl) ==
    [id \in DOMAIN cl |->
        [ID |-> id, Users |-> cl[id].Users, BlockRequests |-> cl[id].BlockRequests,
         TemporaryAccessRequests |-> cl[id].TemporaryAccessRequests]]

Subs(clientID) == MapGet(subscribers, clientID, <<>>)

\* Mutant: a post to a full channel is added to it instead of being dropped.
notifyStacking(clientID) ==
    chans' = [c \in DOMAIN chans |->
                IF c \in Range(Subs(clientID)) THEN chans[c] + 1 ELSE chans[c]]

\* notify(): a non-blocking send on every channel registered for the client.
notify(clientID) ==
    chans' = [c \in DOMAIN chans |->
                IF c \in Range(Subs(clientID)) THEN 1 ELSE chans[c]]

\* cs.ComputedConfig = &config with config computed from the state as it is.
Recompute(cs, t) ==
    [cs EXCEPT !.ComputedConfig = ComputeClientConfig(t, cs, TRUE).config]

\* GetClient's work on one clientState: drop expired grants and blocks, and
\* give a client that has no computed config a version and a config.
Unexpired(rs, t) == SelectSeq(rs, LAMBDA x : x.Until > t)

\* Mutant: GetClient without the migration of a client that has no config.
GetClientStateUnmigrated(cs, t, uuid) ==
    [cs EXCEPT
        !.TemporaryAccessRequests = Unexpired(cs.TemporaryAccessRequests, t),
        !.BlockRequests = Unexpired(cs.BlockRequests, t)]

GetClientState(cs, t, uuid) ==
    LET p == [cs EXCEPT
                !.TemporaryAccessRequests = Unexpired(cs.TemporaryAccessRequests, t),
                !.BlockRequests = Unexpired(cs.BlockRequests, t)]
    IN  IF p.ComputedConfig = NoConfig
        THEN Recompute([p EXCEPT !.LastSentVersion =
                                    IF @ = NoVersion THEN uuid ELSE @], t)
        ELSE p

DrawsUuid(clientID) ==
    /\ clientID \in DOMAIN clients
    /\ clients[clientID].ComputedConfig = NoConfig
    /\ clients[clientID].LastSentVersion = NoVersion

GetClient(clientID) ==
    /\ ~mu.held
    /\ IF clientID \notin DOMAIN clients
       THEN UNCHANGED <<clients, file, nextUuid>>
       ELSE /\ clients' = [clients EXCEPT
                              ![clientID] = GetClientState(@, now, nextUuid)]
            /\ nextUuid' = IF DrawsUuid(clientID) THEN nextUuid + 1 ELSE nextUuid
            /\ file' = IF clients' # clients THEN Persisted(clients') ELSE file

\* The *port.ClientState GetClient returns: a copy of the state it leaves.
Returned(clientID) ==
    IF clientID \in DOMAIN clients' THEN clients'[clientID] ELSE NilState

\* A mutation up to and including its fan-out; r.mu stays held until
\* SaveAndUnlock.
Publish(clientID, cs) ==
    /\ clients' = MapPut(clients, clientID, Recompute(cs, now))
    /\ notify(clientID)
    /\ mu' = Holder(clientID, Range(Subs(clientID)))

\* return r.saveLocked() and the deferred r.mu.Unlock() of a mutation.
SaveAndUnlock ==
    /\ mu.held
    /\ file' = Persisted(clients)
    /\ mu' = NoHolder
    /\ missed' = Range(Subs(mu.client)) \ mu.posted
    /\ UNCHANGED <<now, agentVars, clients, subscribers, chans, nextUuid, bumps, reqs>>

\* A store call that returns without changing anything.
NoEffect == UNCHANGED <<clients, chans, mu>>

SaveClient(client) ==
    /\ ~mu.held
    /\ LET versioned == [client EXCEPT !.LastSentVersion =
                                          IF @ = NoVersion THEN nextUuid ELSE @]
       IN  /\ clients' = MapPut(clients, client.ID, Recompute(versioned, now))
           /\ nextUuid' = IF client.LastSentVersion = NoVersion
                          THEN nextUuid + 1 ELSE nextUuid
    /\ file' = Persisted(clients')

DeleteClient(clientID) ==
    /\ ~mu.held
    /\ IF clientID \notin DOMAIN clients
       THEN UNCHANGED <<clients, subscribers, file>>
       ELSE /\ clients' = [id \in DOMAIN clients \ {clientID} |-> clients[id]]
            /\ subscribers' = [id \in DOMAIN subscribers \ {clientID} |-> subscribers[id]]
            /\ file' = Persisted(clients')

NewClientState(clientID) ==
    [ID |-> clientID, Users |-> <<>>, BlockRequests |-> <<>>,
     TemporaryAccessRequests |-> <<>>, LastSentIntervals |-> EmptyMap,
     LastSentVersion |-> NoVersion, ComputedConfig |-> NoConfig]

AddUser(clientID, user) ==
    /\ ~mu.held
    /\ LET cs == IF clientID \in DOMAIN clients THEN clients[clientID]
                 ELSE NewClientState(clientID)
       IN  Publish(clientID, [cs EXCEPT !.Users = Append(@, user)])

\* The first index i with s[i].ID = id, 0 when there is none (the range loops).
IndexOfID(s, id) ==
    IF \E i \in DOMAIN s : s[i].ID = id
    THEN CHOOSE i \in DOMAIN s : s[i].ID = id /\ \A j \in 1..(i - 1) : s[j].ID # id
    ELSE 0
\* append(s[:i], s[i+1:]...)
RemoveAt(s, i) == SubSeq(s, 1, i - 1) \o SubSeq(s, i + 1, Len(s))
\* Mutant: the queue is never cut.
KeepAll(s) == s
\* Mutant: the cut keeps the front of the queue and drops the entry just added.
KeepOldest(s) ==
    IF Len(s) > maxRequests THEN SubSeq(s, 1, maxRequests) ELSE s

\* s[len(s)-maxRequests:] when len(s) > maxRequests
KeepNewest(s) ==
    IF Len(s) > maxRequests THEN SubSeq(s, Len(s) - maxRequests + 1, Len(s)) ELSE s

UpdateUserSchedule(clientID, userID, schedule) ==
    /\ ~mu.held
    /\ IF clientID \notin DOMAIN clients THEN NoEffect
       ELSE LET cs == clients[clientID]
                i == IndexOfID(cs.Users, userID)
            IN  IF i = 0 THEN NoEffect
                ELSE Publish(clientID, [cs EXCEPT !.Users[i].Schedule = schedule])

DeleteUser(clientID, userID) ==
    /\ ~mu.held
    /\ IF clientID \notin DOMAIN clients THEN NoEffect
       ELSE LET cs == clients[clientID]
                i == IndexOfID(cs.Users, userID)
            IN  IF i = 0 THEN NoEffect
                ELSE Publish(clientID,
                        [cs EXCEPT
                            !.Users = RemoveAt(@, i),
                            !.TemporaryAccessRequests =
                                NotForUser(cs.TemporaryAccessRequests, userID)])

GrantTemporaryAccess(clientID, userID, until) ==
    /\ ~mu.held
    /\ IF clientID \notin DOMAIN clients THEN NoEffect /\ UNCHANGED nextUuid
       ELSE /\ Publish(clientID,
                  [clients[clientID] EXCEPT !.TemporaryAccessRequests =
                      KeepNewest(Append(@, [ID |-> nextUuid, UserID |-> userID,
                                            Start |-> now, Until |-> until]))])
            /\ nextUuid' = nextUuid + 1

BlockClient(clientID, userID, start, until) ==
    /\ ~mu.held
    /\ IF clientID \notin DOMAIN clients THEN NoEffect /\ UNCHANGED nextUuid
       ELSE /\ Publish(clientID,
                  [clients[clientID] EXCEPT !.BlockRequests =
                      KeepNewest(Append(@, [ID |-> nextUuid, UserID |-> userID,
                                            Start |-> start, Until |-> until]))])
            /\ nextUuid' = nextUuid + 1

DeleteBlockRequest(clientID, requestID) ==
    /\ ~mu.held
    /\ IF clientID \notin DOMAIN clients THEN NoEffect
       ELSE LET cs == clients[clientID]
                i == IndexOfID(cs.BlockRequests, requestID)
            IN  IF i = 0 THEN NoEffect
                ELSE Publish(clientID, [cs EXCEPT !.BlockRequests = RemoveAt(@, i)])

DeleteTemporaryAccessRequest(clientID, requestID) ==
    /\ ~mu.held
    /\ IF clientID \notin DOMAIN clients THEN NoEffect
       ELSE LET cs == clients[clientID]
                i == IndexOfID(cs.TemporaryAccessRequests, requestID)
            IN  IF i = 0 THEN NoEffect
                ELSE Publish(clientID,
                        [cs EXCEPT !.TemporaryAccessRequests = RemoveAt(@, i)])

\* Mutant: nothing is recorded as sent.
NoIntervals(config) == EmptyMap

\* intervals[uc.Username] = uc.AllowedIntervals over config.Users (handler.go:124-127):
\* of two entries with one username the later one stays.
IntervalsByUsername(config) ==
    [u \in {config.Users[i].Username : i \in DOMAIN config.Users} |->
        LET i == CHOOSE i \in DOMAIN config.Users :
                    /\ config.Users[i].Username = u
                    /\ \A j \in DOMAIN config.Users :
                          config.Users[j].Username = u => j <= i
        IN  config.Users[i].AllowedIntervals]

UpdateLastSent(clientID, intervals) ==
    /\ ~mu.held
    /\ IF clientID \notin DOMAIN clients THEN UNCHANGED clients
       ELSE clients' = [clients EXCEPT ![clientID].LastSentIntervals = intervals]

\* Mutant: the bump recomputes and fans out but keeps the version it found.
IncrementKeepsVersion(clientID) ==
    /\ ~mu.held
    /\ IF clientID \notin DOMAIN clients THEN NoEffect /\ UNCHANGED nextUuid
       ELSE /\ Publish(clientID, clients[clientID])
            /\ nextUuid' = nextUuid + 1

IncrementConfigVersion(clientID) ==
    /\ ~mu.held
    /\ IF clientID \notin DOMAIN clients THEN NoEffect /\ UNCHANGED nextUuid
       ELSE /\ Publish(clientID, [clients[clientID] EXCEPT !.LastSentVersion = nextUuid])
            /\ nextUuid' = nextUuid + 1

\* Subscribe takes r.subMu only: it does not wait for r.mu.  ch names the
\* channel it makes.
Subscribe(clientID, ch) ==
    /\ subscribers' = MapPut(subscribers, clientID, Append(Subs(clientID), ch))
    /\ chans' = MapPut(chans, ch, 0)

(***************************************************************************)
(* adapter/http: the admin handlers (api.go).  Each calls the store and    *)
(* then, in a second store call, IncrementConfigVersion.                   *)
(***************************************************************************)
ThenBump(clientID) == bumps' = [bumps EXCEPT ![clientID] = @ + 1]
Untouched == UNCHANGED <<now, agentVars, reqs>>

HandleCreateClient(id) ==
    /\ SaveClient(NewClientState(id))
    /\ UNCHANGED <<subscribers, chans, mu, missed, bumps>> /\ Untouched

HandleDeleteClient(clientID) ==
    /\ DeleteClient(clientID)
    /\ UNCHANGED <<chans, mu, nextUuid, missed, bumps>> /\ Untouched

HandleAddUser(clientID, username, schedule) ==
    /\ AddUser(clientID, [ID |-> nextUuid, Username |-> username, Schedule |-> schedule])
    /\ nextUuid' = nextUuid + 1
    /\ ThenBump(clientID)
    /\ UNCHANGED <<file, subscribers, missed>> /\ Untouched

HandleUpdateSchedule(clientID, userID, schedule) ==
    /\ UpdateUserSchedule(clientID, userID, schedule)
    /\ ThenBump(clientID)
    /\ UNCHANGED <<file, subscribers, nextUuid, missed>> /\ Untouched

HandleDeleteUser(clientID, userID) ==
    /\ DeleteUser(clientID, userID)
    /\ ThenBump(clientID)
    /\ UNCHANGED <<file, subscribers, nextUuid, missed>> /\ Untouched

HandleTemporaryAccess(clientID, userID, duration) ==
    /\ duration > 0
    /\ GrantTemporaryAccess(clientID, userID, now + duration * Minute)
    /\ ThenBump(clientID)
    /\ UNCHANGED <<file, subscribers, missed>> /\ Untouched

HandleBlock(clientID, userID, duration) ==
    /\ duration > 0
    /\ BlockClient(clientID, userID, now, now + duration * Minute)
    /\ ThenBump(clientID)
    /\ UNCHANGED <<file, subscribers, missed>> /\ Untouched

HandleDeleteBlock(clientID, requestID) ==
    /\ DeleteBlockRequest(clientID, requestID)
    /\ ThenBump(clientID)
    /\ UNCHANGED <<file, subscribers, nextUuid, missed>> /\ Untouched

HandleDeleteTemporaryAccess(clientID, requestID) ==
    /\ DeleteTemporaryAccessRequest(clientID, requestID)
    /\ ThenBump(clientID)
    /\ UNCHANGED <<file, subscribers, nextUuid, missed>> /\ Untouched

\* History: the requests that have read the state of the client and not yet
\* left the select note that its version was replaced meanwhile.
NoteChange(clientID) ==
    [r \in DOMAIN reqs |->
        IF /\ clientID \in DOMAIN clients
           /\ reqs[r].client = clientID
           /\ reqs[r].pc \in {"subscribe", "wait"}
        THEN [reqs[r] EXCEPT !.changed = TRUE] ELSE reqs[r]]

\* The h.repo.IncrementConfigVersion call that ends an admin handler.
HandleBump(clientID) ==
    /\ bumps[clientID] > 0
    /\ IncrementConfigVersion(clientID)
    /\ bumps' = [bumps EXCEPT ![clientID] = @ - 1]
    /\ reqs' = NoteChange(clientID)
    /\ UNCHANGED <<now, agentVars, file, subscribers, missed>>

(***************************************************************************)
(* adapter/http: ServeConfig (handler.go), one request at a time position. *)
(***************************************************************************)
NoBody == NoConfig
NotSeen == [found |-> FALSE, version |-> NoVersion]
IdleReq ==
    [pc |-> "idle", client |-> "", known |-> NoVersion, config |-> NoConfig,
     v0 |-> NoVersion, t0 |-> 0, nextChange |-> 0, deadline |-> 0,
     arm |-> "none", seen |-> NotSeen, status |-> 0, body |-> NoBody,
     ch |-> 0, changed |-> FALSE, prev |-> NoBody]

\* The handler returns: what it wrote, and what the history keeps of the call.
Finished(q, status, body) ==
    [q EXCEPT !.pc = "done", !.status = status, !.body = body,
              !.config = NoConfig, !.t0 = 0, !.nextChange = 0, !.deadline = 0]

\* Mutant: an unknown client gets a silent empty answer.
DecideSilent(q, state, clientVersion, t) ==
    IF state = NilState THEN Finished(q, 200, NoBody)
    ELSE IF state.ComputedConfig = NoConfig THEN Finished(q, 500, NoBody)
    ELSE IF \/ clientVersion # NoVersion /\ clientVersion # state.ComputedConfig.Version
            \/ state.LastSentVersion # state.ComputedConfig.Version
            \/ clientVersion = NoVersion
         THEN [q EXCEPT !.pc = "send", !.config = state.ComputedConfig,
                        !.v0 = state.ComputedConfig.Version]
         ELSE [q EXCEPT !.pc = "subscribe", !.config = state.ComputedConfig,
                        !.v0 = state.ComputedConfig.Version, !.t0 = t,
                        !.nextChange = ComputeClientConfig(t, state, TRUE).nextChange]

\* handler.go:42-77: what ServeConfig does with the state GetClient returned.
Decide(q, state, clientVersion, t) ==
    IF state = NilState THEN Finished(q, 403, NoBody)
    ELSE IF state.ComputedConfig = NoConfig THEN Finished(q, 500, NoBody)
    ELSE IF \/ clientVersion # NoVersion /\ clientVersion # state.ComputedConfig.Version
            \/ state.LastSentVersion # state.ComputedConfig.Version
            \/ clientVersion = NoVersion
         THEN [q EXCEPT !.pc = "send", !.config = state.ComputedConfig,
                        !.v0 = state.ComputedConfig.Version]
         ELSE [q EXCEPT !.pc = "subscribe", !.config = state.ComputedConfig,
                        !.v0 = state.ComputedConfig.Version, !.t0 = t,
                        !.nextChange = ComputeClientConfig(t, state, TRUE).nextChange]

\* handler.go:26-77: read the state and answer at once or decide to wait.
ServeConfigRead(r, clientID, clientVersion) ==
    /\ reqs[r].pc = "idle"
    /\ GetClient(clientID)
    /\ reqs' = [reqs EXCEPT ![r] =
                  Decide([reqs[r] EXCEPT !.client = clientID, !.known = clientVersion],
                         Returned(clientID), clientVersion, now)]
    /\ UNCHANGED <<now, agentVars, subscribers, chans, mu, missed, bumps>>

\* Mutant: the wait is not capped at maxLongPollInterval.
ServeConfigSubscribeUncapped(r) ==
    /\ reqs[r].pc = "subscribe"
    /\ Subscribe(reqs[r].client, Len(chans) + 1)
    /\ LET q == reqs[r]
           d1 == now + longPollTimeout
           d2 == IF q.nextChange < d1 THEN q.nextChange ELSE d1
       IN  reqs' = [reqs EXCEPT ![r].pc = "wait", ![r].deadline = d2,
                                ![r].ch = Len(chans) + 1]
    /\ UNCHANGED <<now, agentVars, clients, file, mu, nextUuid, missed, bumps>>

\* handler.go:80-90: subscribe and arm the timer.
ServeConfigSubscribe(r) ==
    /\ reqs[r].pc = "subscribe"
    /\ Subscribe(reqs[r].client, Len(chans) + 1)
    /\ LET q == reqs[r]
           d1 == now + longPollTimeout
           d2 == IF q.nextChange < d1 THEN q.nextChange ELSE d1
           d3 == IF d2 - q.t0 > maxLongPollInterval
                 THEN q.t0 + maxLongPollInterval ELSE d2
       IN  reqs' = [reqs EXCEPT ![r].pc = "wait", ![r].deadline = d3,
                                ![r].ch = Len(chans) + 1]
    /\ UNCHANGED <<now, agentVars, clients, file, mu, nextUuid, missed, bumps>>

\* What an arm of the select saw when it read the state again.
SeenOf(state) ==
    IF state = NilState THEN NotSeen
    ELSE IF state.ComputedConfig = NoConfig THEN NotSeen
    ELSE [found |-> TRUE, version |-> state.ComputedConfig.Version]

\* Mutant: the arm answers with the config the request started with.
ReconsiderKeepOld(q, state, arm) ==
    IF SeenOf(state).found /\ SeenOf(state).version # q.config.Version
    THEN [q EXCEPT !.arm = arm, !.seen = SeenOf(state), !.pc = "send"]
    ELSE Finished([q EXCEPT !.arm = arm, !.seen = SeenOf(state)], 200, NoBody)

\* Mutant: the arm never answers with a config.
ReconsiderNeverSends(q, state, arm) ==
    Finished([q EXCEPT !.arm = arm, !.seen = SeenOf(state)], 200, NoBody)

\* handler.go:95-102 and 106-113: send the new config when its version differs
\* from the one the request started with; otherwise the select statement ends
\* and ServeConfig returns.
Reconsider(q, state, arm) ==
    IF SeenOf(state).found /\ SeenOf(state).version # q.config.Version
    THEN [q EXCEPT !.arm = arm, !.seen = SeenOf(state), !.pc = "send",
                   !.config = state.ComputedConfig]
    ELSE Finished([q EXCEPT !.arm = arm, !.seen = SeenOf(state)], 200, NoBody)

Reread(r, arm) ==
    /\ GetClient(reqs[r].client)
    /\ reqs' = [reqs EXCEPT ![r] = Reconsider(reqs[r], Returned(reqs[r].client), arm)]

\* handler.go:93-103: case <-subCh
ServeConfigSignal(r) ==
    /\ reqs[r].pc = "wait"
    /\ chans[reqs[r].ch] = 1
    /\ Reread(r, "signal")
    /\ chans' = [chans EXCEPT ![reqs[r].ch] = 0]
    /\ UNCHANGED <<now, agentVars, subscribers, mu, missed, bumps>>

\* handler.go:104-114: case <-timer.C
ServeConfigTimer(r) ==
    /\ reqs[r].pc = "wait"
    /\ now >= reqs[r].deadline
    /\ Reread(r, "timer")
    /\ UNCHANGED <<now, agentVars, subscribers, chans, mu, missed, bumps>>

\* handler.go:115-116: case <-r.Context().Done()
ServeConfigCtxDone(r) ==
    /\ reqs[r].pc = "wait"
    /\ reqs' = [reqs EXCEPT ![r] = Finished([reqs[r] EXCEPT !.arm = "ctx"], 0, NoBody)]
    /\ UNCHANGED <<now, agentVars, storeVars, bumps>>

\* handler.go:121-122: sendConfig reads the state.
sendConfigGet(r) ==
    /\ reqs[r].pc = "send"
    /\ GetClient(reqs[r].client)
    /\ reqs' = [reqs EXCEPT ![r] =
            IF Returned(reqs[r].client) = NilState
            THEN Finished(reqs[r], 200, reqs[r].config)
            ELSE [reqs[r] EXCEPT !.pc = "update"]]
    /\ UNCHANGED <<now, agentVars, subscribers, chans, mu, missed, bumps>>

\* handler.go:123-131: sendConfig records what it sends and writes the body.
sendConfigUpdate(r) ==
    /\ reqs[r].pc = "update"
    /\ UpdateLastSent(reqs[r].client, IntervalsByUsername(reqs[r].config))
    /\ reqs' = [reqs EXCEPT ![r] = Finished(reqs[r], 200, reqs[r].config)]
    /\ UNCHANGED <<now, agentVars, file, subscribers, chans, mu, nextUuid, missed, bumps>>

(***************************************************************************)
(* The state after jsonfile.New(filePath) and NewHandler.                  *)
(***************************************************************************)
ClientIds == {"c1"}
ServerInit(persisted) ==
    /\ file = persisted
    /\ clients = [id \in DOMAIN persisted |-> Loaded(persisted[id])]
    /\ subscribers = EmptyMap
    /\ chans = EmptyMap
    /\ mu = NoHolder
    /\ nextUuid = 1
    /\ missed = {}
    /\ bumps = [id \in ClientIds |-> 0]

(***************************************************************************)
(* SpecAgent: the agent alone, fed configs drawn from a bounded set.       *)
(***************************************************************************)
MaxCfgUsers == 2
MaxAgentTime == 20
AgentStep == 10
AgentVersions == 2
AgentUsernames == {"a", "b"}
AgentIntervalLists == {<<>>, <<Iv(10, 20)>>}
AgentEntries ==
    {[Username |-> u, AllowedIntervals |-> ivs] :
        u \in AgentUsernames, ivs \in AgentIntervalLists}
\* Lists of at most MaxCfgUsers entries with the usernames in alphabetical
\* order, in which only "a" may be listed more than once (the loop treats all
\* usernames alike).
AgentUserLists ==
    {us \in UNION {[1..n -> AgentEntries] : n \in 0..MaxCfgUsers} :
        \A i, j \in DOMAIN us : i < j => us[i].Username = "a"}
AgentConfigs ==
    {[Users |-> us, Version |-> v] : us \in AgentUserLists, v \in 1..AgentVersions}

AgentAdvance ==
    /\ now + AgentStep <= MaxAgentTime
    /\ now' = now + AgentStep
    /\ UNCHANGED <<agentVars, serverVars>>

AgentInitialFetch ==
    /\ \E fetched \in AgentConfigs \cup {FetchError} : InitialFetch(fetched)
    /\ UNCHANGED <<now, serverVars>>

AgentFetcherLoop ==
    /\ \E fetched \in AgentConfigs : FetcherLoop(fetched)
    /\ UNCHANGED <<now, serverVars>>

AgentTicker == TickerReconcile /\ UNCHANGED <<now, serverVars>>

InitAgent == now = 0 /\ AgentInit /\ ServerInit(EmptyMap) /\ reqs = EmptyMap

NextAgent == AgentAdvance \/ AgentInitialFetch \/ AgentFetcherLoop \/ AgentTicker

SpecAgent == InitAgent /\ [][NextAgent]_vars

(***************************************************************************)
(* Spec: the store, the admin handlers and concurrent config requests.     *)
(***************************************************************************)
NumReq == 1
MaxUuid == 4
MaxPending == 1
MaxUsers == 2
MaxTime == 60
TickStep == 30

ReqIds == 1..NumReq
Usernames == {"a", "b"}
Schedules == {EmptyMap, [monday |-> <<[Start |-> HHMM(0, 1), End |-> HHMM(0, 2)]>>]}
Durations == {1}
\* A version string the store never issued.
ForeignVersion == MaxUuid + 1
\* What a caller can send as ?version=: nothing, the stored version, another one.
KnownVersions(id) ==
    {NoVersion, ForeignVersion}
        \cup (IF id \in DOMAIN clients THEN {clients[id].LastSentVersion} ELSE {})
UserIDs(id) ==
    IF id \in DOMAIN clients
    THEN {clients[id].Users[i].ID : i \in DOMAIN clients[id].Users} ELSE {}
BlockIDs(id) ==
    IF id \in DOMAIN clients
    THEN {clients[id].BlockRequests[i].ID : i \in DOMAIN clients[id].BlockRequests}
    ELSE {}
TempIDs(id) ==
    IF id \in DOMAIN clients
    THEN {clients[id].TemporaryAccessRequests[i].ID :
            i \in DOMAIN clients[id].TemporaryAccessRequests}
    ELSE {}
\* An id that names nothing.
NoSuchID == 0
Fresh(n) == nextUuid + n - 1 <= MaxUuid
CanBump(id) == bumps[id] < MaxPending
\* uuid.New() gives an id nothing in the system refers to.
Unreferenced(id) ==
    /\ id \notin DOMAIN clients
    /\ id \notin DOMAIN subscribers
    /\ bumps[id] = 0
    /\ \A r \in DOMAIN reqs : reqs[r].client # id

Tick ==
    /\ now + TickStep <= MaxTime
    /\ now' = now + TickStep
    /\ UNCHANGED <<agentVars, serverVars>>

CreateClient ==
    \E id \in ClientIds : Unreferenced(id) /\ Fresh(1) /\ HandleCreateClient(id)
DeleteClientReq == \E id \in ClientIds : HandleDeleteClient(id)
AddUserReq ==
    \E id \in ClientIds, u \in Usernames, sch \in Schedules :
        /\ Fresh(1) /\ CanBump(id)
        /\ id \in DOMAIN clients => Len(clients[id].Users) < MaxUsers
        /\ HandleAddUser(id, u, sch)
UpdateScheduleReq ==
    \E id \in ClientIds, sch \in Schedules :
        \E uid \in UserIDs(id) \cup {NoSuchID} :
            CanBump(id) /\ HandleUpdateSchedule(id, uid, sch)
DeleteUserReq ==
    \E id \in ClientIds :
        \E uid \in UserIDs(id) \cup {NoSuchID} :
            CanBump(id) /\ HandleDeleteUser(id, uid)
TemporaryAccessReq ==
    \E id \in ClientIds, d \in Durations :
        \E uid \in UserIDs(id) \cup {NoUser} :
            Fresh(1) /\ CanBump(id) /\ HandleTemporaryAccess(id, uid, d)
BlockReq ==
    \E id \in ClientIds, d \in Durations :
        \E uid \in UserIDs(id) \cup {NoUser} :
            Fresh(1) /\ CanBump(id) /\ HandleBlock(id, uid, d)
DeleteBlockReq ==
    \E id \in ClientIds :
        \E rid \in BlockIDs(id) \cup {NoSuchID} :
            CanBump(id) /\ HandleDeleteBlock(id, rid)
DeleteTemporaryAccessReq ==
    \E id \in ClientIds :
        \E rid \in TempIDs(id) \cup {NoSuchID} :
            CanBump(id) /\ HandleDeleteTemporaryAccess(id, rid)
BumpVersion == \E id \in ClientIds : Fresh(1) /\ HandleBump(id)

ReqRead ==
    \E r \in ReqIds, id \in ClientIds :
        \E v \in KnownVersions(id) :
            /\ DrawsUuid(id) => Fresh(1)
            /\ ServeConfigRead(r, id, v)
ReqSubscribe == \E r \in ReqIds : ServeConfigSubscribe(r)
ReqSignal ==
    \E r \in ReqIds : (DrawsUuid(reqs[r].client) => Fresh(1)) /\ ServeConfigSignal(r)
ReqTimer ==
    \E r \in ReqIds : (DrawsUuid(reqs[r].client) => Fresh(1)) /\ ServeConfigTimer(r)
ReqCtxDone == \E r \in ReqIds : ServeConfigCtxDone(r)
ReqSendGet ==
    \E r \in ReqIds : (DrawsUuid(reqs[r].client) => Fresh(1)) /\ sendConfigGet(r)
ReqSendUpdate == \E r \in ReqIds : sendConfigUpdate(r)

InitFiles ==
    {EmptyMap,
     [id \in ClientIds |-> [ID |-> id, Users |-> <<>>, BlockRequests |-> <<>>,
                            TemporaryAccessRequests |-> <<>>]]}

Init ==
    /\ now = 0
    /\ AgentInit
    /\ \E persisted \in InitFiles : ServerInit(persisted)
    /\ reqs = [r \in ReqIds |-> IdleReq]

Next ==
    \/ Tick
    \/ CreateClient \/ DeleteClientReq
    \/ AddUserReq \/ UpdateScheduleReq \/ DeleteUserReq
    \/ TemporaryAccessReq \/ BlockReq
    \/ DeleteBlockReq \/ DeleteTemporaryAccessReq
    \/ BumpVersion
    \/ SaveAndUnlock
    \/ ReqRead \/ ReqSubscribe \/ ReqSignal \/ ReqTimer \/ ReqCtxDone
    \/ ReqSendGet \/ ReqSendUpdate

Spec == Init /\ [][Next]_vars

(***************************************************************************)
(* SpecPoll: the store, the admin adding and deleting users, and a caller   *)
(* that asks again after each answer.  The request keeps, as history, the  *)
(* last body the caller received before.                                   *)
(***************************************************************************)
ReqAgain ==
    \E r \in ReqIds :
        /\ reqs[r].pc = "done"
        /\ reqs' = [reqs EXCEPT ![r] =
                [IdleReq EXCEPT !.prev = IF reqs[r].body # NoBody
                                         THEN reqs[r].body ELSE reqs[r].prev]]
        /\ UNCHANGED <<now, agentVars, storeVars, bumps>>

\* A caller that sends no version, or one the store never issued.
PollRead ==
    \E r \in ReqIds, id \in ClientIds, v \in {NoVersion, ForeignVersion} :
        /\ DrawsUuid(id) => Fresh(1)
        /\ ServeConfigRead(r, id, v)

NextPoll ==
    \/ CreateClient
    \/ AddUserReq \/ DeleteUserReq
    \/ BumpVersion
    \/ SaveAndUnlock
    \/ PollRead \/ ReqSendGet \/ ReqSendUpdate
    \/ ReqAgain

SpecPoll == Init /\ [][NextPoll]_vars

(***************************************************************************)
(* SpecQueue: one stored client and an admin who grants and blocks, one    *)
(* request after the other, more often than a queue holds entries.         *)
(***************************************************************************)
MaxQueueUuid == 23

QueueFresh == nextUuid <= MaxQueueUuid

QueueGrant ==
    \E id \in ClientIds, d \in Durations :
        QueueFresh /\ CanBump(id) /\ HandleTemporaryAccess(id, NoUser, d)
QueueBlock ==
    \E id \in ClientIds, d \in Durations :
        QueueFresh /\ CanBump(id) /\ HandleBlock(id, NoUser, d)
QueueBump == \E id \in ClientIds : QueueFresh /\ HandleBump(id)

InitQueue ==
    /\ now = 0
    /\ AgentInit
    /\ \E persisted \in InitFiles : persisted # EmptyMap /\ ServerInit(persisted)
    /\ reqs = [r \in ReqIds |-> IdleReq]

NextQueue == QueueGrant \/ QueueBlock \/ QueueBump \/ SaveAndUnlock

SpecQueue == InitQueue /\ [][NextQueue]_vars

(***************************************************************************)
(* SpecStore: the admin handlers on a store whose file may fail to be      *)
(* written, with subscribers registered.  A handler starts when the one    *)
(* before it on the client has ended (CanBump), so the handler that holds  *)
(* r.mu with its IncrementConfigVersion still due is the only one.         *)
(***************************************************************************)
MaxStoreSubs == 1

\* saveLocked() returns an error (MkdirAll or the opening of the file fails:
\* the file keeps its content); the deferred Unlock runs, the mutator returns
\* the error and the handler answers 500 without IncrementConfigVersion.
SaveFailsAndUnlock ==
    /\ mu.held
    /\ file' = file
    /\ mu' = [held |-> FALSE, failed |-> TRUE, client |-> mu.client,
              posted |-> mu.posted]
    /\ bumps' = [bumps EXCEPT ![mu.client] = 0]
    /\ missed' = Range(Subs(mu.client)) \ mu.posted
    /\ UNCHANGED <<now, agentVars, clients, subscribers, chans, nextUuid, reqs>>

StoreSubscribe ==
    \E id \in ClientIds :
        /\ Len(chans) < MaxStoreSubs
        /\ Subscribe(id, Len(chans) + 1)
        /\ UNCHANGED <<now, agentVars, clients, file, mu, nextUuid, missed, bumps, reqs>>

NextStore ==
    \/ AddUserReq \/ DeleteUserReq
    \/ TemporaryAccessReq \/ BlockReq
    \/ BumpVersion
    \/ SaveAndUnlock \/ SaveFailsAndUnlock
    \/ StoreSubscribe

SpecStore == Init /\ [][NextStore]_vars

(***************************************************************************)
(* SpecInput: the admin handlers given well-formed and malformed input:    *)
(* schedules whose "HH:MM" strings do not parse, durations that are not    *)
(* positive.                                                               *)
(***************************************************************************)
InputSchedules ==
    Schedules
        \cup {[monday |-> <<[Start |-> HHMM(25, 0), End |-> HHMM(0, 2)]>>],
              [monday |-> <<[Start |-> HHMM(0, 1), End |-> <<NotANumber, Num(0)>>]>>]}
InputDurations == {-1, 0, 1}

InputAddUser ==
    \E id \in ClientIds, u \in Usernames, sch \in InputSchedules :
        /\ Fresh(1) /\ CanBump(id)
        /\ id \in DOMAIN clients => Len(clients[id].Users) < MaxUsers
        /\ HandleAddUser(id, u, sch)
InputUpdateSchedule ==
    \E id \in ClientIds, sch \in InputSchedules :
        \E uid \in UserIDs(id) :
            CanBump(id) /\ HandleUpdateSchedule(id, uid, sch)
\* api.go:208-211, 232-235: a duration that is not positive is answered 400
\* before the store is called.
InputTemporaryAccess ==
    \E id \in ClientIds, d \in InputDurations :
        IF d <= 0 THEN UNCHANGED vars
        ELSE Fresh(1) /\ CanBump(id) /\ HandleTemporaryAccess(id, NoUser, d)
InputBlock ==
    \E id \in ClientIds, d \in InputDurations :
        IF d <= 0 THEN UNCHANGED vars
        ELSE Fresh(1) /\ CanBump(id) /\ HandleBlock(id, NoUser, d)

NextInput ==
    \/ InputAddUser \/ InputUpdateSchedule
    \/ InputTemporaryAccess \/ InputBlock
    \/ BumpVersion
    \/ SaveAndUnlock
    \/ StoreSubscribe

SpecInput == Init /\ [][NextInput]_vars

(***************************************************************************)
(* SpecCompute: ComputeAllowedIntervals (through ComputeClientConfig) on   *)
(* inputs drawn from bounded sets: one user with a schedule, grants for    *)
(* the user and global blocks, at an instant `now`.  The client state      *)
(* holds the inputs; its ComputedConfig holds the result with includePast  *)
(* = true and currentConfig the result with includePast = false.  Further  *)
(* grants and blocks are then added and the results computed again.        *)
(***************************************************************************)
MaxRanges == 2
ComputeClient == "c1"
ComputeUser == 1

\* The instant h:m:00 of day d (day 0 is the Monday of instant 0).
At(d, h, m) == d * Day + h * Hour + m * Minute

ComputeNows ==
    {At(0, 7, 0), At(0, 9, 0) + 30, At(0, 12, 0), At(0, 23, 0), At(1, 1, 0),
     At(1, 2, 30)}
ComputeSchedules ==
    {EmptyMap,
     [monday |-> <<[Start |-> HHMM(8, 0), End |-> HHMM(10, 0)]>>],
     [monday |-> <<[Start |-> HHMM(22, 0), End |-> HHMM(2, 0)]>>],
     [wednesday |-> <<[Start |-> HHMM(8, 0), End |-> HHMM(10, 0)]>>]}
ComputeRanges ==
    {Iv(At(0, 8, 30), At(0, 9, 30)), Iv(At(0, 9, 0), At(0, 13, 0)),
     Iv(At(1, 0, 0), At(1, 3, 0)), Iv(At(2, 7, 0), At(2, 13, 0))}
ComputeRangeLists == {<<>>} \cup {<<x>> : x \in ComputeRanges}

\* The request (grant or block) with the range x.
AsRequest(x, uid) == [ID |-> 0, UserID |-> uid, Start |-> x.Start, Until |-> x.End]

ComputeState(schedule, grants, blocks) ==
    [NewClientState(ComputeClient) EXCEPT
        !.Users = <<[ID |-> ComputeUser, Username |-> "a", Schedule |-> schedule]>>,
        !.TemporaryAccessRequests = [i \in DOMAIN grants |-> AsRequest(grants[i], ComputeUser)],
        !.BlockRequests = [i \in DOMAIN blocks |-> AsRequest(blocks[i], NoUser)]]

\* Both results for the inputs held in cs.
Computed(cs) ==
    /\ clients' = [id \in {ComputeClient} |-> Recompute(cs, now)]
    /\ currentConfig' = ComputeClientConfig(now, cs, FALSE).config
    /\ UNCHANGED <<now, agentPc, lastVersion, lastState, recs, file, subscribers,
                   chans, mu, nextUuid, missed, bumps, reqs>>

Compute ==
    /\ clients[ComputeClient].ComputedConfig = NoConfig
    /\ Computed(clients[ComputeClient])

ComputeWithGrant ==
    \E x \in ComputeRanges :
        /\ clients[ComputeClient].ComputedConfig # NoConfig
        /\ Len(clients[ComputeClient].TemporaryAccessRequests) < MaxRanges
        /\ Computed([clients[ComputeClient] EXCEPT
                        !.TemporaryAccessRequests = Append(@, AsRequest(x, ComputeUser))])

ComputeWithBlock ==
    \E x \in ComputeRanges :
        /\ clients[ComputeClient].ComputedConfig # NoConfig
        /\ Len(clients[ComputeClient].BlockRequests) < MaxRanges
        /\ Computed([clients[ComputeClient] EXCEPT
                        !.BlockRequests = Append(@, AsRequest(x, NoUser))])

InitComputeAt(nows) ==
    /\ now \in nows
    /\ AgentInit
    /\ \E sch \in ComputeSchedules, gs \in ComputeRangeLists, bs \in ComputeRangeLists :
          clients = [id \in {ComputeClient} |-> ComputeState(sch, gs, bs)]
    /\ file = EmptyMap
    /\ subscribers = EmptyMap
    /\ chans = EmptyMap
    /\ mu = NoHolder
    /\ nextUuid = 1
    /\ missed = {}
    /\ bumps = [id \in ClientIds |-> 0]
    /\ reqs = EmptyMap
InitCompute == InitComputeAt(ComputeNows)

NextCompute == Compute \/ ComputeWithGrant \/ ComputeWithBlock

SpecCompute == InitCompute /\ [][NextCompute]_vars

(***************************************************************************)
(* SpecMember: ComputeAllowedIntervals at the start, the middle and the    *)
(* end of a schedule entry, and the agent reconciling the result.          *)
(***************************************************************************)
MemberNows == {At(0, 8, 0), At(0, 9, 0), At(0, 10, 0), At(1, 2, 0)}

\* The agent's initial fetch gets the stored config (includePast = true), or
\* the one computed with includePast = false.
MemberFetch ==
    /\ clients[ComputeClient].ComputedConfig # NoConfig
    /\ \E fetched \in {clients[ComputeClient].ComputedConfig, currentConfig} :
          InitialFetch(fetched)
    /\ UNCHANGED <<now, serverVars>>

MemberTicker == TickerReconcile /\ UNCHANGED <<now, serverVars>>

InitMember == InitComputeAt(MemberNows)

NextMember == Compute \/ MemberFetch \/ MemberTicker

SpecMember == InitMember /\ [][NextMember]_vars

(***************************************************************************)
(* SpecScope: ComputeClientConfig for a client with two users, and grants  *)
(* and blocks for the one user, for the other and for no user.             *)
(***************************************************************************)
OtherUser == 2
ScopeNows == {At(0, 7, 0), At(0, 12, 0)}
ScopeRanges == {Iv(At(0, 8, 30), At(0, 9, 30)), Iv(At(0, 9, 0), At(0, 13, 0))}
ScopeUserIDs == {ComputeUser, OtherUser, NoUser}
ScopeSchedules ==
    {EmptyMap, [monday |-> <<[Start |-> HHMM(8, 0), End |-> HHMM(10, 0)]>>]}

ScopeState(schA, schB) ==
    [NewClientState(ComputeClient) EXCEPT
        !.Users = <<[ID |-> ComputeUser, Username |-> "a", Schedule |-> schA],
                    [ID |-> OtherUser, Username |-> "b", Schedule |-> schB]>>]

ScopeGrant ==
    \E x \in ScopeRanges, uid \in ScopeUserIDs :
        /\ clients[ComputeClient].ComputedConfig # NoConfig
        /\ Len(clients[ComputeClient].TemporaryAccessRequests) < MaxRanges
        /\ Computed([clients[ComputeClient] EXCEPT
                        !.TemporaryAccessRequests = Append(@, AsRequest(x, uid))])

ScopeBlock ==
    \E x \in ScopeRanges, uid \in ScopeUserIDs :
        /\ clients[ComputeClient].ComputedConfig # NoConfig
        /\ Len(clients[ComputeClient].BlockRequests) < MaxRanges
        /\ Computed([clients[ComputeClient] EXCEPT
                        !.BlockRequests = Append(@, AsRequest(x, uid))])

InitScope ==
    /\ now \in ScopeNows
    /\ AgentInit
    /\ \E schA \in ScopeSchedules, schB \in ScopeSchedules :
          clients = [id \in {ComputeClient} |-> ScopeState(schA, schB)]
    /\ file = EmptyMap
    /\ subscribers = EmptyMap
    /\ chans = EmptyMap
    /\ mu = NoHolder
    /\ nextUuid = 1
    /\ missed = {}
    /\ bumps = [id \in ClientIds |-> 0]
    /\ reqs = EmptyMap

NextScope == Compute \/ ScopeGrant \/ ScopeBlock

SpecScope == InitScope /\ [][NextScope]_vars

(***************************************************************************)
(* SpecE2E: one agent polling the store through ServeConfig, an admin who  *)
(* adds one user, and a clock that moves in steps of hours.                *)
(***************************************************************************)
E2EStepHours == 18
E2EMaxHours == 54
E2EClient == "c1"
\* Every day from 00:00 to 12:00.
E2ESchedule ==
    [d \in {DayKey(wd) : wd \in 0..6} |-> <<[Start |-> HHMM(0, 0), End |-> HHMM(12, 0)]>>]

E2ETick ==
    /\ now + E2EStepHours * Hour <= E2EMaxHours * Hour
    /\ now' = now + E2EStepHours * Hour
    /\ UNCHANGED <<agentVars, serverVars>>

E2EAddUser ==
    /\ Fresh(1) /\ CanBump(E2EClient)
    /\ E2EClient \in DOMAIN clients => clients[E2EClient].Users = <<>>
    /\ HandleAddUser(E2EClient, "a", E2ESchedule)

\* The admin saves the user's schedule again.
E2EUpdateSchedule ==
    \E uid \in UserIDs(E2EClient) :
        CanBump(E2EClient) /\ HandleUpdateSchedule(E2EClient, uid, E2ESchedule)

\* fetcher.FetchConfig(ctx, lastVersion): the agent's request reaches ServeConfig.
E2EPoll ==
    \E r \in ReqIds :
        /\ DrawsUuid(E2EClient) => Fresh(1)
        /\ ServeConfigRead(r, E2EClient, lastVersion)

\* Mutant: the error of decoding an empty body is dropped and the zero config
\* is returned.
FetchedZero(q) ==
    IF q.status # 200 THEN FetchError
    ELSE IF q.body # NoBody THEN q.body ELSE [Users |-> <<>>, Version |-> NoVersion]

\* FetchConfig returns: a config when the answer is 200 with a body, an error
\* otherwise (config_fetcher.go:45-50); main.go:113-121 and 127-138 take it.
Fetched(q) == IF q.status = 200 /\ q.body # NoBody THEN q.body ELSE FetchError

E2EDeliver ==
    \E r \in ReqIds :
        /\ reqs[r].pc = "done"
        /\ reqs' = [reqs EXCEPT ![r] = IdleReq]
        /\ IF agentPc = "boot"
           THEN InitialFetch(Fetched(reqs[r]))
           ELSE IF Fetched(reqs[r]) # FetchError
                   /\ Fetched(reqs[r]).Version # lastVersion
                THEN FetcherLoop(Fetched(reqs[r]))
                ELSE UNCHANGED agentVars
        /\ UNCHANGED <<now, storeVars, bumps>>

\* config_fetcher.go:41-44: f.client.Do returns an error (the connection
\* broke, or the 90 s of the client passed); what the handler wrote is lost.
E2ENetworkError ==
    \E r \in ReqIds :
        /\ reqs[r].pc = "done"
        /\ reqs' = [reqs EXCEPT ![r] = IdleReq]
        /\ IF agentPc = "boot"
           THEN InitialFetch(FetchError)
           ELSE UNCHANGED agentVars
        /\ UNCHANGED <<now, storeVars, bumps>>

InitE2E ==
    /\ now = 0
    /\ AgentInit
    /\ ServerInit(EmptyMap)
    /\ reqs = [r \in ReqIds |-> IdleReq]

NextE2E ==
    \/ E2ETick
    \/ E2EAddUser \/ E2EUpdateSchedule \/ BumpVersion \/ SaveAndUnlock
    \/ E2EPoll \/ ReqSubscribe \/ ReqSignal \/ ReqTimer
    \/ ReqSendGet \/ ReqSendUpdate
    \/ E2EDeliver
    \/ E2ENetworkError
    \/ AgentTicker

SpecE2E == InitE2E /\ [][NextE2E]_vars

(***************************************************************************)
(* SpecRace: program.run with its two goroutines.  The fetch goroutine is  *)
(* started before the initial fetch of the main goroutine (main.go:103,    *)
(* 128); both assign currentConfig and then lastVersion without a lock.    *)
(* agentPc holds the position of each goroutine and the config it has      *)
(* fetched and not yet assigned; reqs holds the request of each.  The      *)
(* store is started on a file that holds the client, and the admin adds    *)
(* one user.  The instant is not tracked: now stays at 0 and the deadline   *)
(* of a waiting request passes at some point.                              *)
(***************************************************************************)
RaceTasks == {"main", "fetcher"}
RaceBoot ==
    [main |-> "fetch", mainFetched |-> NoConfig, fetcher |-> "loop", fetched |-> NoConfig]

\* main.go:128: fetcher.FetchConfig(ctx, "") reaches ServeConfig.
RaceMainFetch ==
    /\ agentPc.main = "fetch"
    /\ DrawsUuid(E2EClient) => Fresh(1)
    /\ ServeConfigRead("main", E2EClient, NoVersion)

\* main.go:111: fetcher.FetchConfig(ctx, lastVersion) reaches ServeConfig.
RaceFetcherFetch ==
    /\ agentPc.fetcher = "loop"
    /\ DrawsUuid(E2EClient) => Fresh(1)
    /\ ServeConfigRead("fetcher", E2EClient, lastVersion)

RaceSubscribe == \E r \in RaceTasks : ServeConfigSubscribe(r)
RaceSignal ==
    \E r \in RaceTasks : (DrawsUuid(reqs[r].client) => Fresh(1)) /\ ServeConfigSignal(r)
\* handler.go:104-114: case <-timer.C, the deadline having passed.
RaceTimer ==
    \E r \in RaceTasks :
        /\ reqs[r].pc = "wait"
        /\ Reread(r, "timer")
        /\ UNCHANGED <<now, agentVars, subscribers, chans, mu, missed, bumps>>
RaceSendGet ==
    \E r \in RaceTasks : (DrawsUuid(reqs[r].client) => Fresh(1)) /\ sendConfigGet(r)
RaceSendUpdate == \E r \in RaceTasks : sendConfigUpdate(r)

\* main.go:128-133: FetchConfig returns; on success currentConfig = fetched.
RaceMainConfig ==
    /\ agentPc.main = "fetch"
    /\ reqs["main"].pc = "done"
    /\ reqs' = [reqs EXCEPT !["main"] = IdleReq]
    /\ IF Fetched(reqs["main"]) = FetchError
       THEN /\ agentPc' = [agentPc EXCEPT !.main = "run"]
            /\ UNCHANGED currentConfig
       ELSE /\ agentPc' = [agentPc EXCEPT !.main = "version",
                                          !.mainFetched = Fetched(reqs["main"])]
            /\ currentConfig' = Fetched(reqs["main"])
    /\ UNCHANGED <<now, lastVersion, lastState, recs, storeVars, bumps>>

\* main.go:134: lastVersion = fetched.Version
RaceMainVersion ==
    /\ agentPc.main = "version"
    /\ lastVersion' = agentPc.mainFetched.Version
    /\ agentPc' = [agentPc EXCEPT !.main = "apply"]
    /\ UNCHANGED <<now, currentConfig, lastState, recs, serverVars>>

\* main.go:135: lastState = client.ApplyAccessIfNeeded(ctrl, fetched, time.Now(), nil)
RaceMainApply ==
    /\ agentPc.main = "apply"
    /\ \E spOk \in Outcomes(agentPc.mainFetched), dcOk \in Outcomes(agentPc.mainFetched) :
          /\ lastState' = ApplyAccessIfNeeded(agentPc.mainFetched, now, EmptyMap,
                                              spOk, dcOk).state
          /\ recs' = Remember(RecOf(agentPc.mainFetched, now, EmptyMap,
                                    ApplyAccessIfNeeded(agentPc.mainFetched, now,
                                                        EmptyMap, spOk, dcOk)))
    /\ agentPc' = [agentPc EXCEPT !.main = "run", !.mainFetched = NoConfig]
    /\ UNCHANGED <<now, currentConfig, lastVersion, serverVars>>

\* main.go:111-116: FetchConfig returns in the fetch goroutine, which compares
\* fetched.Version with lastVersion.  The channel of the request, which
\* nothing receives from any more, is left out of the model from here on.
RaceFetcherTake ==
    /\ agentPc.fetcher = "loop"
    /\ reqs["fetcher"].pc = "done"
    /\ reqs' = [reqs EXCEPT !["fetcher"] = IdleReq]
    /\ subscribers' = EmptyMap
    /\ chans' = EmptyMap
    /\ IF /\ Fetched(reqs["fetcher"]) # FetchError
          /\ Fetched(reqs["fetcher"]).Version # lastVersion
       THEN agentPc' = [agentPc EXCEPT !.fetcher = "config",
                                       !.fetched = Fetched(reqs["fetcher"])]
       ELSE UNCHANGED agentPc
    /\ UNCHANGED <<now, currentConfig, lastVersion, lastState, recs, clients, file,
                   mu, nextUuid, missed, bumps>>

\* main.go:118: currentConfig = fetched
RaceFetcherConfig ==
    /\ agentPc.fetcher = "config"
    /\ currentConfig' = agentPc.fetched
    /\ agentPc' = [agentPc EXCEPT !.fetcher = "version"]
    /\ UNCHANGED <<now, lastVersion, lastState, recs, serverVars>>

\* main.go:119: lastVersion = fetched.Version
RaceFetcherVersion ==
    /\ agentPc.fetcher = "version"
    /\ lastVersion' = agentPc.fetched.Version
    /\ agentPc' = [agentPc EXCEPT !.fetcher = "loop", !.fetched = NoConfig]
    /\ UNCHANGED <<now, currentConfig, lastState, recs, serverVars>>

InitRace ==
    /\ now = 0
    /\ agentPc = RaceBoot
    /\ currentConfig = NoConfig
    /\ lastVersion = NoVersion
    /\ lastState = EmptyMap
    /\ recs = <<>>
    /\ ServerInit([id \in {E2EClient} |->
                      [ID |-> id, Users |-> <<>>, BlockRequests |-> <<>>,
                       TemporaryAccessRequests |-> <<>>]])
    /\ reqs = [r \in RaceTasks |-> IdleReq]

NextRace ==
    \/ E2EAddUser \/ BumpVersion \/ SaveAndUnlock
    \/ RaceMainFetch \/ RaceFetcherFetch
    \/ RaceSubscribe \/ RaceSignal \/ RaceTimer \/ RaceSendGet \/ RaceSendUpdate
    \/ RaceMainConfig \/ RaceMainVersion \/ RaceMainApply
    \/ RaceFetcherTake \/ RaceFetcherConfig \/ RaceFetcherVersion

SpecRace == InitRace /\ [][NextRace]_vars

\* The steps of the main goroutine and of the handler of its request, and the
\* end of a store operation.
RaceOnce ==
    \/ SaveAndUnlock
    \/ RaceMainFetch \/ RaceMainConfig \/ RaceMainVersion \/ RaceMainApply
    \/ sendConfigGet("main") \/ sendConfigUpdate("main")
\* The steps of the fetch goroutine after its request has reached the server,
\* and of the handler of that request.
RaceLoop ==
    \/ RaceFetcherTake \/ RaceFetcherConfig \/ RaceFetcherVersion
    \/ ServeConfigSubscribe("fetcher") \/ ServeConfigSignal("fetcher")
    \/ (reqs["fetcher"].pc = "wait" /\ RaceTimer)
    \/ sendConfigGet("fetcher") \/ sendConfigUpdate("fetcher")
\* ENABLED <<BumpVersion>>_vars and ENABLED <<RaceFetcherFetch>>_vars, written
\* out from the guards of the two actions.
BumpVersionEnabled ==
    \E id \in ClientIds : Fresh(1) /\ bumps[id] > 0 /\ ~mu.held
RaceFetcherFetchEnabled ==
    /\ agentPc.fetcher = "loop"
    /\ reqs["fetcher"].pc = "idle"
    /\ ~mu.held
    /\ DrawsUuid(E2EClient) => Fresh(1)
\* Both goroutines, the handlers of the server and the timers keep running,
\* and an admin handler that has changed the store goes on to
\* IncrementConfigVersion: weak fairness of RaceOnce, of RaceLoop, of
\* BumpVersion and of RaceFetcherFetch.  The admin need not add the user.
RaceFairness ==
    /\ WF_vars(RaceOnce)
    /\ WF_vars(RaceLoop)
    /\ ([]<>(~BumpVersionEnabled) \/ []<><<BumpVersion>>_vars)
    /\ ([]<>(~RaceFetcherFetchEnabled) \/ []<><<RaceFetcherFetch>>_vars)

SpecRaceFair == SpecRace /\ RaceFairness

(***************************************************************************)
(* Properties of the store and of the config endpoint (Spec).              *)
(***************************************************************************)
Answered(q) == q.pc = "done" /\ q.arm # "ctx"
HasBody(q) == q.pc = "done" /\ q.status = 200 /\ q.body # NoBody
EmptyClose(q) == q.pc = "done" /\ q.status = 200 /\ q.body = NoBody
Sending(q) == q.pc \in {"send", "update"}
\* The arm read a state whose version is not the one the request started with.
SawNewVersion(q) == q.seen.found /\ q.seen.version # q.v0
\* The request answers, or is about to, with the config the arm read.
ReportsSeen(q) ==
    \/ Sending(q) /\ q.config.Version = q.seen.version
    \/ HasBody(q) /\ q.body.Version = q.seen.version

\* C6 (as claimed): when a mutation that fans out returns, every channel then
\* registered for its client has been posted to by that mutation.
C6_SubscriberWakeUp == missed = {}

C8_SpuriousSignal ==
    \A r \in DOMAIN reqs :
        (reqs[r].arm = "signal" /\ reqs[r].seen.found /\ reqs[r].seen.version = reqs[r].v0)
            => reqs[r].pc = "wait"

RecordsEmitted(last, body) ==
    /\ DOMAIN last = {body.Users[i].Username : i \in DOMAIN body.Users}
    /\ \A i \in DOMAIN body.Users :
          (\A j \in DOMAIN body.Users :
                body.Users[j].Username = body.Users[i].Username => j <= i)
          => last[body.Users[i].Username] = body.Users[i].AllowedIntervals

\* The step from reqs[r] to reqs'[r] is as C10 says.
ImmediateStep(r) ==
    /\ (/\ reqs[r].pc = "idle" /\ reqs'[r].pc # "idle"
        /\ reqs'[r].client \in DOMAIN clients'
        /\ \/ reqs'[r].known = NoVersion
           \/ reqs'[r].known # clients'[reqs'[r].client].LastSentVersion)
       => /\ reqs'[r].pc = "send"
          /\ reqs'[r].config = clients'[reqs'[r].client].ComputedConfig
          /\ reqs'[r].ch = 0
    /\ (Sending(reqs[r]) /\ reqs[r].arm = "none" /\ reqs'[r] # reqs[r])
       => /\ reqs'[r].ch = 0
          /\ reqs'[r].pc \in {"update", "done"}
          /\ reqs'[r].pc = "update" => reqs'[r].config = reqs[r].config
          /\ reqs'[r].pc = "done" =>
                /\ reqs'[r].status = 200
                /\ reqs'[r].body = reqs[r].config
          /\ reqs[r].client \in DOMAIN clients =>
                /\ reqs[r].client \in DOMAIN clients'
                /\ clients'[reqs[r].client].LastSentVersion
                      = clients[reqs[r].client].LastSentVersion
                /\ clients'[reqs[r].client].ComputedConfig
                      = clients[reqs[r].client].ComputedConfig
                /\ reqs[r].pc = "update" =>
                      RecordsEmitted(clients'[reqs[r].client].LastSentIntervals,
                                     reqs'[r].body)

\* C10: a request without a version, or with a version other than the stored
\* one, goes straight to sending the cached computed config, without
\* subscribing; the emission leaves version and computed config as they were
\* and leaves in last_sent_intervals, per username, the intervals emitted.
C10_ImmediateResponse == [][\A r \in DOMAIN reqs : ImmediateStep(r)]_vars

C10_Witness ==
    \E r \in DOMAIN reqs :
        /\ HasBody(reqs[r]) /\ reqs[r].arm = "none"
        /\ reqs[r].known # NoVersion
        /\ reqs[r].ch = 0
        /\ reqs[r].client \in DOMAIN clients
        /\ Len(reqs[r].body.Users) = 2
        /\ clients[reqs[r].client].ComputedConfig = reqs[r].body
        /\ RecordsEmitted(clients[reqs[r].client].LastSentIntervals, reqs[r].body)

(***************************************************************************)
(* Properties of the enforcement loop (SpecAgent).                         *)
(***************************************************************************)
HasLast == recs # <<>>
HasOlder == Len(recs) = 2
LastRec == Last(recs)
OlderRec == recs[1]
\* Every entry of u in the config of record r has required = v.
RequiredIs(r, u, v) ==
    /\ u \in DOMAIN r.required
    /\ \A i \in DOMAIN r.required[u] : r.required[u][i] = v
ListedOnce(r, u) == u \in DOMAIN r.required /\ Len(r.required[u]) = 1
RandomLockCall(u, ok) == SetPasswordCall(u, generateRandomPassword(lockPasswordLen), ok)

\* C1 (as claimed): in the first reconcile after start, with last_state empty,
\* every user of the config gets exactly one SetPassword call whatever its
\* required value; a blocked user gets SetPassword(u, random 20) and, the password
\* set, one DisconnectUserSession(u).
C1_FirstTickApply ==
    (Len(recs) = 1 /\ LastRec.before = EmptyMap) =>
        \A u \in DOMAIN LastRec.required :
            ListedOnce(LastRec, u) =>
                /\ Cardinality(SetPasswordsFor(u, LastRec.calls)) = 1
                /\ RequiredIs(LastRec, u, FALSE) =>
                     \A i \in SetPasswordsFor(u, LastRec.calls) :
                        /\ LastRec.calls[i] = RandomLockCall(u, LastRec.calls[i].ok)
                        /\ LastRec.calls[i].ok =>
                             Cardinality(DisconnectsFor(u, LastRec.calls)) = 1

\* C3: a user whose required value is the same in two consecutive reconciles,
\* and for whom no SetPassword of the first one failed, gets no SetPassword and
\* no DisconnectUserSession call in the second one.
C3_AtMostOneApply ==
    HasOlder =>
        \A u \in DOMAIN LastRec.required, v \in BOOLEAN :
            (/\ RequiredIs(OlderRec, u, v)
             /\ RequiredIs(LastRec, u, v)
             /\ u \notin OlderRec.spFailed)
            => CallsFor(u, LastRec.calls) = {}

C3_Witness ==
    /\ HasOlder
    /\ \E u \in DOMAIN LastRec.required, v \in BOOLEAN :
        /\ RequiredIs(OlderRec, u, v) /\ RequiredIs(LastRec, u, v)
        /\ u \in OlderRec.spOk /\ u \notin OlderRec.spFailed
        /\ CallsFor(u, LastRec.calls) = {}

\* C4: when the (last) SetPassword for a user fails, last_state[u] is left at
\* the negation of required; the next reconcile with the same required value
\* calls SetPassword for u again; once the last SetPassword for u succeeds,
\* last_state[u] equals required.
C4_RetryAfterFailure ==
    /\ HasLast =>
        \A u \in DOMAIN LastRec.required, v \in BOOLEAN :
            RequiredIs(LastRec, u, v) =>
                /\ LastFailed(u, LastRec.calls, "SetPassword") =>
                        lastState[u] = ~v /\ LastRec.after[u] = ~v
                /\ LastSetPasswordOk(u, LastRec.calls) =>
                        lastState[u] = v /\ LastRec.after[u] = v
    /\ HasOlder =>
        \A u \in DOMAIN LastRec.required, v \in BOOLEAN :
            (/\ RequiredIs(OlderRec, u, v)
             /\ RequiredIs(LastRec, u, v)
             /\ u \in OlderRec.spLastFailed)
            => SetPasswordsFor(u, LastRec.calls) # {}

C4_Witness ==
    /\ HasOlder
    /\ \E u \in DOMAIN LastRec.required, v \in BOOLEAN :
        /\ RequiredIs(OlderRec, u, v) /\ RequiredIs(LastRec, u, v)
        /\ u \in OlderRec.spLastFailed
        /\ LastSetPasswordOk(u, LastRec.calls)
        /\ lastState[u] = v

\* C5: DisconnectUserSession(u) is called only directly after a successful
\* SetPassword(u, random password) of the same reconcile; a failed disconnect
\* leaves last_state[u] = false and the next reconcile, u still blocked, makes
\* no call for u.
C5_LockOrdering ==
    /\ HasLast =>
        /\ \A i \in DOMAIN LastRec.calls :
            IsDisconnect(LastRec.calls[i]) =>
                /\ i > 1
                /\ LastRec.calls[i - 1] = RandomLockCall(LastRec.calls[i].user, TRUE)
        /\ \A u \in DOMAIN LastRec.required :
            (/\ RequiredIs(LastRec, u, FALSE)
             /\ LastFailed(u, LastRec.calls, "DisconnectUserSession"))
            => lastState[u] = FALSE /\ LastRec.after[u] = FALSE
    /\ HasOlder =>
        \A u \in DOMAIN LastRec.required :
            (/\ RequiredIs(OlderRec, u, FALSE)
             /\ RequiredIs(LastRec, u, FALSE)
             /\ u \in OlderRec.dcLastFailed)
            => CallsFor(u, LastRec.calls) = {}

C5_Witness ==
    /\ HasOlder
    /\ \E u \in DOMAIN LastRec.required :
        /\ RequiredIs(OlderRec, u, FALSE) /\ RequiredIs(LastRec, u, FALSE)
        /\ u \in OlderRec.dcLastFailed
        /\ CallsFor(u, LastRec.calls) = {}
        /\ lastState[u] = FALSE


(***************************************************************************)
(* Properties of the agent against the store (SpecE2E).                    *)
(***************************************************************************)
\* Instant t lies in an entry of the weekly schedule: an entry of t's own
\* weekday, or an overnight entry of the day before.
InSchedule(t, schedule) ==
    \E back \in {0, 1} :
        LET day == Midnight(t) - back * Day
            key == DayKey(Weekday(day))
        IN  /\ key \in DOMAIN schedule
            /\ \E i \in DOMAIN schedule[key] :
                  LET p == parseDayInterval(day, schedule[key][i].Start,
                                            schedule[key][i].End)
                  IN  ~p.err /\ p.start <= t /\ t < p.end
Granted(t, state, userID) ==
    \E i \in DOMAIN state.TemporaryAccessRequests :
        /\ state.TemporaryAccessRequests[i].UserID = userID
        /\ state.TemporaryAccessRequests[i].Start <= t /\ t < state.TemporaryAccessRequests[i].Until
Blocked(t, state, userID) ==
    \E i \in DOMAIN state.BlockRequests :
        /\ state.BlockRequests[i].UserID \in {NoUser, userID}
        /\ state.BlockRequests[i].Start <= t /\ t < state.BlockRequests[i].Until
\* What the stored schedule, grants and blocks say about user at instant t.
Allowed(t, state, user) ==
    /\ InSchedule(t, user.Schedule) \/ Granted(t, state, user.ID)
    /\ ~Blocked(t, state, user.ID)
\* The agent holds the version the store last sent.
HoldsCurrentVersion ==
    /\ E2EClient \in DOMAIN clients
    /\ currentConfig # NoConfig
    /\ currentConfig.Version = clients[E2EClient].LastSentVersion
\* This step is a reconcile: the first apply or a tick of stateTicker.
ReconcileStep == TickerReconcile \/ (agentPc = "boot" /\ recs' # recs)
AllCallsOk(r) == \A i \in DOMAIN r.calls : r.calls[i].ok

\* C2: at every reconcile at which the agent holds the store's current version
\* and every OS call succeeded, last_state[u] is true exactly when the stored
\* schedule and grants allow u at that instant outside every applicable block.
C2_EndToEndExact ==
    [][(ReconcileStep /\ HoldsCurrentVersion' /\ AllCallsOk(Last(recs')))
          => \A i \in DOMAIN clients[E2EClient].Users :
                MapGet(lastState', clients[E2EClient].Users[i].Username, FALSE)
                    = Allowed(now, clients[E2EClient],
                              clients[E2EClient].Users[i])]_vars

\* C11 (as claimed): a response with a body that carries the same version as
\* the body the same caller received before carries the same users with the same
\* allowed intervals.
C11_SameVersionSameContent ==
    \A r \in DOMAIN reqs :
        (/\ HasBody(reqs[r])
         /\ reqs[r].prev # NoBody
         /\ reqs[r].body.Version = reqs[r].prev.Version)
            => reqs[r].body.Users = reqs[r].prev.Users

\* What the admin sees of a client at instant t: its users with their
\* schedules, and its grants and blocks that have not expired.
AdminView(cs, t) ==
    [Users |-> cs.Users,
     Grants |-> Unexpired(cs.TemporaryAccessRequests, t),
     Blocks |-> Unexpired(cs.BlockRequests, t)]

\* C12 (as claimed): in every step that keeps a client that has a version, the
\* stored version changes if and only if the step changes the client's users,
\* schedules, grants or blocks.
C12_VersionTracksState ==
    [][\A id \in ClientIds :
          (/\ id \in DOMAIN clients /\ id \in DOMAIN clients'
           /\ clients[id].ComputedConfig # NoConfig)
             => ((clients'[id].LastSentVersion # clients[id].LastSentVersion)
                    <=> (AdminView(clients'[id], now') # AdminView(clients[id], now')))]_vars

\* The values uuid.New() has returned so far, and the empty string.
IssuedBefore == 0..(nextUuid - 1)
\* This step is the IncrementConfigVersion call that ends an admin mutation of
\* client id, and finds the client stored.
BumpStep(id) == bumps'[id] < bumps[id] /\ id \in DOMAIN clients

\* C13: the IncrementConfigVersion call that ends an admin mutation gives the
\* client a version that is not the one it replaces and that was never issued
\* before (stored versions are issued values and no value is issued twice), so
\* the version after the mutation differs from the one before it.
C13_VersionChange ==
    [][/\ nextUuid' >= nextUuid
       /\ \A id \in DOMAIN clients : clients[id].LastSentVersion \in IssuedBefore
       /\ \A id \in ClientIds :
             BumpStep(id) =>
                /\ id \in DOMAIN clients'
                /\ clients'[id].LastSentVersion # clients[id].LastSentVersion
                /\ clients'[id].LastSentVersion \notin IssuedBefore]_vars

\* A user was added to a stored client and the bump that ends the mutation ran.
C13_Witness ==
    \E id \in DOMAIN clients :
        /\ clients[id].Users # <<>>
        /\ bumps[id] = 0 /\ ~mu.held
        /\ clients[id].LastSentVersion > clients[id].Users[Len(clients[id].Users)].ID

\* C14: a client that has a computed config has it with the stored version in
\* it; the snapshot GetClient returns is a copy of that state.
C14_ConfigVersionPairing ==
    \A id \in DOMAIN clients :
        clients[id].ComputedConfig # NoConfig
            => clients[id].ComputedConfig.Version = clients[id].LastSentVersion

\* A client whose version was replaced after its user was added, with the
\* config computed again for that version.
C14_Witness ==
    \E id \in DOMAIN clients :
        /\ clients[id].ComputedConfig # NoConfig
        /\ clients[id].ComputedConfig.Users # <<>>
        /\ clients[id].ComputedConfig.Version = clients[id].LastSentVersion
        /\ clients[id].LastSentVersion > clients[id].Users[1].ID

(***************************************************************************)
(* Properties of the grant and block queues (SpecQueue).                   *)
(***************************************************************************)
\* C15: the queue of temporary-access requests and the queue of block requests
\* of a client never hold more than maxRequests entries.
C15_QueueBound ==
    \A id \in DOMAIN clients :
        /\ Len(clients[id].TemporaryAccessRequests) <= maxRequests
        /\ Len(clients[id].BlockRequests) <= maxRequests

\* Only grants were made, the queue is full, and the first grant made is gone.
C15_Witness ==
    \E id \in DOMAIN clients :
        /\ clients[id].BlockRequests = <<>>
        /\ Len(clients[id].TemporaryAccessRequests) = maxRequests
        /\ clients[id].TemporaryAccessRequests[1].ID > 1

(***************************************************************************)
(* Pruning of expired grants and blocks (Spec).                            *)
(***************************************************************************)
NoExpired(cs, t) ==
    /\ \A i \in DOMAIN cs.TemporaryAccessRequests : cs.TemporaryAccessRequests[i].Until > t
    /\ \A i \in DOMAIN cs.BlockRequests : cs.BlockRequests[i].Until > t

\* The step in which a config request reads the client (GetClient).
ReadStep(r) == reqs[r].pc = "idle" /\ reqs'[r].pc # "idle"
\* The step in which a write operation changes the client under r.mu.
WriteStep == ~mu.held /\ mu'.held

\* C16: when a read of a client has run, and when a write operation on a
\* client has run, the client's queues hold no entry whose end is not after
\* the time of the operation.
C16_PrunedOnReadAndWrite ==
    [][ /\ \A r \in ReqIds :
            (ReadStep(r) /\ reqs'[r].client \in DOMAIN clients')
                => NoExpired(clients'[reqs'[r].client], now')
        /\ (WriteStep /\ mu'.client \in DOMAIN clients')
                => NoExpired(clients'[mu'.client], now') ]_vars

(***************************************************************************)
(* The users of a client (Spec).                                           *)
(***************************************************************************)
\* C17: no two users of one client share an ID and no two share a Username.
C17_UserUniqueness ==
    \A id \in DOMAIN clients :
        \A i, j \in DOMAIN clients[id].Users :
            i # j => /\ clients[id].Users[i].ID # clients[id].Users[j].ID
                     /\ clients[id].Users[i].Username # clients[id].Users[j].Username

(***************************************************************************)
(* A save that fails (SpecStore).                                          *)
(***************************************************************************)
\* The last mutating store operation ended with an error from saveLocked.
SaveFailed == "failed" \in DOMAIN mu

\* C18: when the write to the file failed in a mutating store operation, the
\* clients in memory are the clients of the file and the operation signalled
\* no subscriber.
C18_FailureAtomic ==
    SaveFailed => (Persisted(clients) = file /\ mu.posted = {})

(***************************************************************************)
(* Requests for a client the store does not hold (Spec).                   *)
(***************************************************************************)
\* The step in which an admin handler made its store call for the client
\* (its IncrementConfigVersion is now due).
AdminStep(id) == bumps'[id] > bumps[id]

\* C19: an admin mutation addressed to a client that is not in the store
\* leaves the store as it is; it creates no client.
C19_UnknownClientAdmin ==
    [][ \A id \in ClientIds :
            (AdminStep(id) /\ id \notin DOMAIN clients)
                => (clients' = clients /\ file' = file) ]_vars

\* C20: a config request for a client that is not in the store ends at once
\* with status 403 and no body, with or without a version, and leaves the
\* store as it is: no client is created.
C20_UnknownClientConfig ==
    [][ \A r \in ReqIds :
            (ReadStep(r) /\ reqs'[r].client \notin DOMAIN clients)
                => /\ reqs'[r].pc = "done"
                   /\ reqs'[r].status = 403
                   /\ reqs'[r].body = NoBody
                   /\ clients' = clients
                   /\ file' = file ]_vars

\* A request that supplied a version was denied and the client is not stored.
C20_Witness ==
    \E r \in ReqIds :
        /\ reqs[r].pc = "done"
        /\ reqs[r].status = 403
        /\ reqs[r].known = ForeignVersion
        /\ reqs[r].client \in ClientIds \ DOMAIN clients

(***************************************************************************)
(* Malformed input (SpecInput).                                            *)
(***************************************************************************)
\* Some "HH:MM" string of the schedule does not parse.
MalformedSchedule(schedule) ==
    \E k \in DOMAIN schedule : \E i \in DOMAIN schedule[k] :
        ParseTime(schedule[k][i].Start).err \/ ParseTime(schedule[k][i].End).err
\* A grant or block whose duration is not positive.
NonPositive(x) == x.Until <= x.Start
\* What a step put into a client that was not there before the step.
NewUsers(id) ==
    Range(clients'[id].Users)
        \ (IF id \in DOMAIN clients THEN Range(clients[id].Users) ELSE {})
NewRequests(id) ==
    (Range(clients'[id].TemporaryAccessRequests) \cup Range(clients'[id].BlockRequests))
        \ (IF id \in DOMAIN clients
           THEN Range(clients[id].TemporaryAccessRequests)
                    \cup Range(clients[id].BlockRequests)
           ELSE {})

\* C21: a request with a malformed schedule or a duration that is not positive
\* changes nothing: no step stores a user whose schedule has a malformed
\* "HH:MM" string, and no step stores a grant or block that ends at or before
\* its start.
C21_MalformedRefused ==
    [][ \A id \in DOMAIN clients' :
            /\ \A u \in NewUsers(id) : ~MalformedSchedule(u.Schedule)
            /\ \A x \in NewRequests(id) : ~NonPositive(x) ]_vars

(***************************************************************************)
(* The agent and a fetch that fails (SpecE2E).                             *)
(***************************************************************************)
\* The step in which FetchConfig returns to the agent.
FetchReturns(r) == reqs[r].pc = "done" /\ reqs'[r].pc = "idle"

\* C22: when a fetch ends, the agent either takes the body of a 200 answer
\* or, for a network error, a status other than 200 or a 200 without body,
\* keeps its config, its version and its last state; the call is over and
\* the fetcher can make the next one.
C22_FetchFailureKeepsConfig ==
    [][ \A r \in ReqIds :
            FetchReturns(r) =>
                /\ reqs'[r] = IdleReq
                /\ \/ /\ currentConfig' = currentConfig
                      /\ lastVersion' = lastVersion
                      /\ lastState' = lastState
                   \/ /\ HasBody(reqs[r])
                      /\ currentConfig' = reqs[r].body
                      /\ lastVersion' = reqs[r].body.Version ]_vars

\* The agent holds a config with a user, and its fetch has ended with an
\* answer that is no config.
C22_Witness ==
    \E r \in ReqIds :
        /\ agentPc = "run"
        /\ currentConfig # NoConfig
        /\ currentConfig.Users # <<>>
        /\ reqs[r].pc = "done"
        /\ ~HasBody(reqs[r])

(***************************************************************************)
(* Reconcile with a config that lists no user (SpecAgent).                 *)
(***************************************************************************)
\* C23: a reconcile whose config has no users makes no SetPassword and no
\* DisconnectUserSession call and returns the last state it was given.
C23_EmptyConfigNoOp ==
    (recs # <<>> /\ DOMAIN Last(recs).required = {})
        => /\ Last(recs).calls = <<>>
           /\ Last(recs).after = Last(recs).before
           /\ lastState = Last(recs).before

\* The last reconcile had a config without users and a last state with a user.
C23_Witness ==
    /\ recs # <<>>
    /\ DOMAIN Last(recs).required = {}
    /\ Last(recs).before # EmptyMap

(***************************************************************************)
(* Deleting a client that has waiting requests (Spec).                     *)
(***************************************************************************)
\* The step in which DeleteClient removes the client.
DeleteStep(id) == id \in DOMAIN clients /\ id \notin DOMAIN clients'
\* The request waits in the select statement and nothing is on its channel.
HeldToDeadline(q) == q.pc = "wait" /\ chans'[q.ch] = 0

\* C24: when DeleteClient has removed a client, no channel is registered for
\* it, and every request that waits on it has been released: a signal is on
\* its channel, so it does not stay in the select until its deadline.
C24_DeleteReleasesWaiters ==
    [][ \A id \in ClientIds :
            DeleteStep(id) =>
                /\ id \notin DOMAIN subscribers'
                /\ \A r \in ReqIds :
                     reqs'[r].client = id => ~HeldToDeadline(reqs'[r]) ]_vars

(***************************************************************************)
(* Properties of ComputeAllowedIntervals (SpecCompute).                    *)
(***************************************************************************)
IsComputed == clients[ComputeClient].ComputedConfig # NoConfig
\* The inputs.
TheSchedule == clients[ComputeClient].Users[1].Schedule
TheGrants == AsRanges(clients[ComputeClient].TemporaryAccessRequests)
TheBlocks == AsRanges(clients[ComputeClient].BlockRequests)
\* The intervals returned with includePast = true and with includePast = false.
WithPast == clients[ComputeClient].ComputedConfig.Users[1].AllowedIntervals
WithoutPast == currentConfig.Users[1].AllowedIntervals
\* now truncated to the minute.
NowMinute == now - (now % Minute)

\* Every interval is non-empty, and each ends at or before the start of the
\* next one: the starts ascend strictly and no two intervals overlap.
Shaped(ivs) ==
    /\ \A i \in DOMAIN ivs : ivs[i].Start < ivs[i].End
    /\ \A i, j \in DOMAIN ivs : i < j => ivs[i].End <= ivs[j].Start

\* C25: the returned intervals are sorted by start, do not overlap and are not
\* empty; with includePast = false each starts at or after now (truncated to
\* the minute), ends after it and ends at or before now + 48 h.
C25_IntervalShape ==
    IsComputed =>
        /\ Shaped(WithPast)
        /\ Shaped(WithoutPast)
        /\ \A i \in DOMAIN WithoutPast :
              /\ NowMinute <= WithoutPast[i].Start
              /\ WithoutPast[i].End > NowMinute
              /\ WithoutPast[i].End <= NowMinute + IntervalWindowHours * Hour

\* Two grants and a block were given, now is not on a minute, and the result
\* without the past has two intervals, the first clipped to the minute of now.
C25_Witness ==
    /\ IsComputed
    /\ Len(TheGrants) = 2 /\ Len(TheBlocks) >= 1
    /\ now # NowMinute
    /\ Len(WithoutPast) >= 2
    /\ WithoutPast[1].Start = NowMinute

\* Some instant t has x.Start <= t < x.End and y.Start <= t < y.End.
Meet(x, y) == x.Start < y.End /\ y.Start < x.End /\ x.Start < x.End /\ y.Start < y.End

\* C26: with either value of includePast, no returned interval holds an
\* instant of a block that was given.
C26_BlockDominance ==
    IsComputed =>
        \A b \in Range(TheBlocks) :
            /\ \A i \in DOMAIN WithPast : ~Meet(WithPast[i], b)
            /\ \A i \in DOMAIN WithoutPast : ~Meet(WithoutPast[i], b)

\* The instants at which the properties below are evaluated: every input and
\* every result changes only on a half hour, at now or at the minute of now.
ProbeDays == 4
Probes ==
    {k * 30 * Minute + d : k \in 0..(ProbeDays * 48), d \in {0, 1}}
        \cup {now, NowMinute}

InRange(t, x) == x.Start <= t /\ t < x.End
\* t lies in an entry that the schedule has for the weekday of t.
InOwnDayEntry(t) ==
    /\ DayKey(Weekday(t)) \in DOMAIN TheSchedule
    /\ \E i \in DOMAIN TheSchedule[DayKey(Weekday(t))] :
          /\ ~parseDayInterval(Midnight(t), TheSchedule[DayKey(Weekday(t))][i].Start,
                               TheSchedule[DayKey(Weekday(t))][i].End).err
          /\ InRange(t, Iv(parseDayInterval(Midnight(t),
                                            TheSchedule[DayKey(Weekday(t))][i].Start,
                                            TheSchedule[DayKey(Weekday(t))][i].End).start,
                           parseDayInterval(Midnight(t),
                                            TheSchedule[DayKey(Weekday(t))][i].Start,
                                            TheSchedule[DayKey(Weekday(t))][i].End).end))
InGrant(t) == \E g \in Range(TheGrants) : InRange(t, g)
InBlock(t) == \E b \in Range(TheBlocks) : InRange(t, b)

\* C27: with includePast = false, every instant from now up to 48 h after
\* (the minute of) now that lies in a schedule entry of its own weekday or in
\* a grant, and in no block, is in a returned interval.
C27_WindowCoverage ==
    IsComputed =>
        \A t \in Probes :
            (/\ now <= t /\ t < NowMinute + IntervalWindowHours * Hour
             /\ InOwnDayEntry(t) \/ InGrant(t)
             /\ ~InBlock(t))
                => isWithinIntervals(t, WithoutPast)

\* The entries the schedule has for the weekday of the day that begins at `day`.
EntriesOn(day) ==
    IF DayKey(Weekday(day)) \in DOMAIN TheSchedule
    THEN Range(TheSchedule[DayKey(Weekday(day))]) ELSE {}
\* An entry whose end is not after its start: it runs into the next day.
IsOvernight(e) ==
    /\ ~ParseTime(e.Start).err /\ ~ParseTime(e.End).err
    /\ ParseTime(e.End).hour * 60 + ParseTime(e.End).minute
          <= ParseTime(e.Start).hour * 60 + ParseTime(e.Start).minute
\* The range of instants the entry e allows when it is taken on `day`.
Span(day, e) ==
    Iv(parseDayInterval(day, e.Start, e.End).start,
       parseDayInterval(day, e.Start, e.End).end)
\* The schedule has one entry, and there are no grants and no blocks.
OnlyOneEntry ==
    /\ Cardinality(DOMAIN TheSchedule) = 1
    /\ \A k \in DOMAIN TheSchedule : Len(TheSchedule[k]) = 1
    /\ TheGrants = <<>> /\ TheBlocks = <<>>

\* C28: an entry with end <= start allows access from its start until its end
\* on the following day.  When now is on the entry's day at or after the start,
\* the result (nothing else given) is the one interval from now to that end;
\* when now is on the following day before the end, now is in the result.
C28_OvernightEntries ==
    IsComputed =>
        /\ \A e \in EntriesOn(Midnight(now)) :
              (IsOvernight(e) /\ now >= Span(Midnight(now), e).Start /\ OnlyOneEntry)
                  => WithoutPast = <<Iv(NowMinute, Span(Midnight(now), e).End)>>
        /\ \A e \in EntriesOn(Midnight(now) - Day) :
              (/\ IsOvernight(e) /\ now < Span(Midnight(now) - Day, e).End
               /\ ~InBlock(now))
                  => isWithinIntervals(now, WithoutPast)

\* Every probed instant that is in the intervals a is in the intervals b.
CoveredBy(a, b) ==
    \A t \in Probes : isWithinIntervals(t, a) => isWithinIntervals(t, b)

\* The step that computes again with one more grant / one more block.
GrantStep ==
    /\ IsComputed
    /\ Len(clients'[ComputeClient].TemporaryAccessRequests)
          > Len(clients[ComputeClient].TemporaryAccessRequests)
BlockStep ==
    /\ IsComputed
    /\ Len(clients'[ComputeClient].BlockRequests)
          > Len(clients[ComputeClient].BlockRequests)

\* C29: every instant covered by the result is covered by the result for the
\* same inputs with one more grant.
C29_GrantMonotonicity ==
    [][ GrantStep => /\ CoveredBy(WithPast, WithPast')
                     /\ CoveredBy(WithoutPast, WithoutPast') ]_vars

\* A grant was added to inputs that had a grant and a block, and the result
\* without the past has two intervals.
C29_Witness ==
    /\ IsComputed
    /\ Len(TheGrants) = 2
    /\ Len(TheBlocks) >= 1
    /\ Len(WithoutPast) >= 2

\* The block the step added.
NewBlock == Last(AsRanges(clients'[ComputeClient].BlockRequests))
\* The block lies strictly inside the interval iv.
StrictlyInside(b, iv) == iv.Start < b.Start /\ b.Start < b.End /\ b.End < iv.End
\* The intervals ivs with the i-th cut in two by the block b.
SplitAt(ivs, i, b) ==
    SubSeq(ivs, 1, i - 1)
        \o <<Iv(ivs[i].Start, b.Start), Iv(b.End, ivs[i].End)>>
        \o SubSeq(ivs, i + 1, Len(ivs))
\* One more block adds no instant to the result ivs, and when it lies strictly
\* inside an interval of ivs the new result is ivs with that interval split.
Subtracted(ivs, after, b) ==
    /\ CoveredBy(after, ivs)
    /\ \A i \in DOMAIN ivs : StrictlyInside(b, ivs[i]) => after = SplitAt(ivs, i, b)

\* C30: every instant covered by the result with one more block was covered
\* without it; a block strictly inside a returned interval replaces it by the
\* two pieces before and after the block.
C30_BlockSubtractivity ==
    [][ BlockStep => /\ Subtracted(WithPast, WithPast', NewBlock)
                     /\ Subtracted(WithoutPast, WithoutPast', NewBlock) ]_vars

(***************************************************************************)
(* The next change returned by ComputeAllowedIntervals (SpecCompute).      *)
(***************************************************************************)
\* What ComputeAllowedIntervals returns for the inputs held in the state.
ResultOf(includePast) ==
    UserIntervals(now, clients[ComputeClient], clients[ComputeClient].Users[1],
                  includePast)
\* The instant the function takes as now.
NowOf(includePast) == IF includePast THEN now ELSE NowMinute
\* The boundaries the next change is chosen from.
Boundaries(includePast) ==
    {ResultOf(includePast).intervals[i].Start : i \in DOMAIN ResultOf(includePast).intervals}
        \cup {ResultOf(includePast).intervals[i].End : i \in DOMAIN ResultOf(includePast).intervals}
        \cup {g.End : g \in Range(TheGrants)}
        \cup {b.Start : b \in Range(TheBlocks)}
        \cup {b.End : b \in Range(TheBlocks)}
\* The boundaries after now, and the end of the window.
Candidates(includePast) ==
    {c \in Boundaries(includePast) : c > NowOf(includePast)}
        \cup {NowOf(includePast) + IntervalWindowHours * Hour}

\* C31: the next change is after now and at most 48 h after now; it is the
\* least boundary after now, or now + 48 h when no boundary after now lies
\* before that (now truncated to the minute when includePast = false).
C31_NextChangeBounds ==
    IsComputed =>
        \A ip \in BOOLEAN :
            /\ ResultOf(ip).nextChange > NowOf(ip)
            /\ ResultOf(ip).nextChange <= NowOf(ip) + IntervalWindowHours * Hour
            /\ ResultOf(ip).nextChange \in Candidates(ip)
            /\ \A c \in Candidates(ip) : ResultOf(ip).nextChange <= c

\* A block starts exactly at the minute of now, and the next change without
\* the past is a boundary inside the window.
C31_Witness ==
    /\ IsComputed
    /\ \E b \in Range(TheBlocks) : b.Start = NowMinute
    /\ ResultOf(FALSE).nextChange < NowMinute + IntervalWindowHours * Hour

(***************************************************************************)
(* Half-open membership (SpecMember).  now does not move and the agent's   *)
(* config is set by the fetch that makes the first reconcile, so the last  *)
(* reconcile was made with currentConfig at now.                           *)
(***************************************************************************)
\* now lies in some interval of ivs, the start included and the end excluded.
InSome(ivs) == \E i \in DOMAIN ivs : ivs[i].Start <= now /\ now < ivs[i].End
\* The last reconcile took required = (start <= now < end for some allowed
\* interval) for every user, and left that value in lastState when its last
\* SetPassword for the user succeeded or none was needed.
RequiredHalfOpen ==
    HasLast =>
        \A i \in DOMAIN currentConfig.Users :
            /\ LastRec.required[currentConfig.Users[i].Username]
                  = <<InSome(currentConfig.Users[i].AllowedIntervals)>>
            /\ ~LastFailed(currentConfig.Users[i].Username, LastRec.calls, "SetPassword")
                  => lastState[currentConfig.Users[i].Username]
                        = InSome(currentConfig.Users[i].AllowedIntervals)
\* The entries of today's schedule that end exactly at the function's now.
EndingNow(includePast) ==
    {e \in EntriesOn(Midnight(now)) :
        /\ ~parseDayInterval(Midnight(now), e.Start, e.End).err
        /\ Span(Midnight(now), e).End = NowOf(includePast)}
\* No returned interval starts before now when an entry ends at now: nothing
\* is returned for that entry.
NothingForEntry(includePast) ==
    (IsComputed /\ EndingNow(includePast) # {}) =>
        \A i \in DOMAIN ResultOf(includePast).intervals :
            ResultOf(includePast).intervals[i].Start >= NowOf(includePast)

Versioned(cs) ==
    /\ cs.LastSentVersion # NoVersion
    /\ cs.ComputedConfig # NoConfig
    /\ cs.ComputedConfig.Version # NoVersion

\* C33: a get of a client of the store leaves it with a non-empty version and
\* a computed config that carries it, also when the client was loaded from
\* the file; a request that names a version from before the restart is
\* answered at once and is not made to wait.
C33_RestartRegenerates ==
    [][ \A r \in ReqIds :
            (ReadStep(r) /\ reqs'[r].client \in DOMAIN clients')
                => /\ Versioned(clients'[reqs'[r].client])
                   /\ reqs'[r].known = ForeignVersion => reqs'[r].pc = "send" ]_vars

(***************************************************************************)
(* The subscriptions of ended requests (Spec).                             *)
(***************************************************************************)
\* The requests that have subscribed for the client and have not ended.
Waiting(id) ==
    {r \in ReqIds : reqs[r].client = id /\ reqs[r].ch # 0
                        /\ reqs[r].pc \in {"wait", "send"}}

\* C34: the channels registered for a client are never more than the requests
\* that wait on it: a request that ends, with a config, empty at the
\* deadline or by a peer disconnect, leaves no channel behind.
C34_NoSubscriptionLeft ==
    \A id \in ClientIds : Len(Subs(id)) <= Cardinality(Waiting(id))

(***************************************************************************)
(* Convergence of the agent (SpecRaceFair).  The admin's mutations stop    *)
(* after the one user is added, and every request is answered.             *)
(***************************************************************************)
\* The agent holds the store's computed config.
Converged ==
    /\ E2EClient \in DOMAIN clients
    /\ currentConfig = clients[E2EClient].ComputedConfig

\* C35: whatever the interleaving of the initial fetch with the fetch
\* goroutine, from some point on the agent's current config is the store's
\* computed config of the latest version; it is not left with the store's
\* version as its last version and an older config.
C35_AgentConvergence == <>[]Converged

(***************************************************************************)
(* The fan-out and the two locks (Spec).                                   *)
(***************************************************************************)
\* The channels no request waits on.
Unattended ==
    {c \in DOMAIN chans : \A r \in ReqIds : ~(reqs[r].pc = "wait" /\ reqs[r].ch = c)}

WithoutRequestsOf(cs, uid) ==
    [cs EXCEPT !.TemporaryAccessRequests = NotForUser(@, uid),
               !.BlockRequests = NotForUser(@, uid)]
\* The intervals the config computed from cs gives to its i-th user.
IntervalsAt(cs, i, includePast) ==
    ComputeClientConfig(now, cs, includePast).config.Users[i].AllowedIntervals
\* The grants and blocks of a user change no other user's intervals.
ScopedToUser ==
    \A i, j \in DOMAIN clients[ComputeClient].Users, ip \in BOOLEAN :
        i # j =>
            IntervalsAt(WithoutRequestsOf(clients[ComputeClient],
                                          clients[ComputeClient].Users[j].ID), i, ip)
                = IntervalsAt(clients[ComputeClient], i, ip)
\* No interval of any user holds an instant of a block made for no user.
GlobalBlocksCut ==
    \A i \in DOMAIN clients[ComputeClient].Users, ip \in BOOLEAN :
        \A b \in Range(AsRanges(ForUser(clients[ComputeClient].BlockRequests, NoUser))) :
            \A k \in DOMAIN IntervalsAt(clients[ComputeClient], i, ip) :
                ~Meet(IntervalsAt(clients[ComputeClient], i, ip)[k], b)

\* C37: in the computed config a grant or block made for user A changes only
\* A's intervals, and a block made for no user is cut out of the intervals of
\* every user.
C37_RequestScope ==
    IsComputed => (ScopedToUser /\ GlobalBlocksCut)

(***************************************************************************)
(* The order of eviction (SpecQueue).                                      *)
(***************************************************************************)
\* q2 is q1 with one entry added at the back, which is the one given the
\* fresh id, and then cut from the front to at most maxRequests entries.
AppendedAndCut(q1, q2) ==
    /\ q2 # <<>>
    /\ q2[Len(q2)].ID = nextUuid
    /\ Len(q2) = (IF Len(q1) + 1 > maxRequests THEN maxRequests ELSE Len(q1) + 1)
    /\ \A k \in 1..(Len(q2) - 1) : q2[k] = q1[Len(q1) + 1 - Len(q2) + k]
\* The entries are in the order in which they were added.
InsertionOrder(q) == \A i, j \in DOMAIN q : i < j => q[i].ID < q[j].ID

\* C38: a grant and a block put the new entry at the back of their queue and
\* then drop entries from the front down to maxRequests, so the queue holds
\* the entries added last, in the order they were added, the new one included.
C38_EvictionOrder ==
    [][ \A id \in DOMAIN clients :
          AdminStep(id) =>
            /\ \/ /\ AppendedAndCut(clients[id].TemporaryAccessRequests,
                                     clients'[id].TemporaryAccessRequests)
                  /\ clients'[id].BlockRequests = clients[id].BlockRequests
               \/ /\ AppendedAndCut(clients[id].BlockRequests,
                                     clients'[id].BlockRequests)
                  /\ clients'[id].TemporaryAccessRequests
                        = clients[id].TemporaryAccessRequests
            /\ InsertionOrder(clients'[id].TemporaryAccessRequests)
            /\ InsertionOrder(clients'[id].BlockRequests) ]_vars

\* A block has just been added to the full queue of blocks: the queue still
\* holds maxRequests entries, the new one at the back, and has lost an entry
\* at the front; grants were made in between.
C38_Witness ==
    \E id \in DOMAIN clients :
        /\ mu.held
        /\ Len(clients[id].BlockRequests) = maxRequests
        /\ clients[id].BlockRequests[maxRequests].ID = nextUuid - 1
        /\ clients[id].TemporaryAccessRequests # <<>>
        /\ \E i \in DOMAIN clients[id].TemporaryAccessRequests :
              clients[id].TemporaryAccessRequests[i].ID < clients[id].BlockRequests[1].ID
        /\ Cardinality({k \in 1..(nextUuid - 1) :
                          k < clients[id].BlockRequests[1].ID}) > 2

(***************************************************************************)
(* The deadline of the long poll (Spec).  now of the claim is the instant  *)
(* ServeConfig reads at handler.go:56, kept in the request as t0.          *)
(***************************************************************************)
\* The next changes of the users of state at instant t, the past included.
UserNextChanges(state, t) ==
    {UserIntervals(t, state, state.Users[i], TRUE).nextChange : i \in DOMAIN state.Users}
\* T_nc: the least of them, or t + 48 h for a client without users.
LeastNextChange(state, t) ==
    IF state.Users = <<>> THEN t + 48 * Hour
    ELSE CHOOSE m \in UserNextChanges(state, t) :
            \A x \in UserNextChanges(state, t) : m <= x
Least3(a, b, c) ==
    IF a <= b /\ a <= c THEN a ELSE IF b <= c THEN b ELSE c

\* C39: a request that decides to wait keeps T_nc, the least next change over
\* the users of the state it read (now + 48 h without users), and the deadline
\* it arms is min(now + 60 s, T_nc, now + 55 s): after now, at most 55 s
\* after now, and not later than T_nc.
C39_LongPollDeadline ==
    [][ \A r \in DOMAIN reqs :
          /\ (reqs[r].pc = "idle" /\ reqs'[r].pc = "subscribe") =>
                /\ reqs'[r].t0 = now
                /\ reqs'[r].nextChange
                      = LeastNextChange(clients'[reqs'[r].client], now)
          /\ (reqs[r].pc = "subscribe" /\ reqs'[r].pc = "wait") =>
                /\ reqs'[r].deadline
                      = Least3(reqs[r].t0 + longPollTimeout, reqs[r].nextChange,
                               reqs[r].t0 + maxLongPollInterval)
                /\ reqs'[r].deadline > reqs[r].t0
                /\ reqs'[r].deadline <= reqs[r].t0 + maxLongPollInterval
                /\ reqs'[r].deadline <= reqs[r].nextChange ]_vars

\* A request read the state after the clock had moved and waits until the
\* next change of a user, which comes before the cap.
C39_Witness ==
    \E r \in DOMAIN reqs :
        /\ reqs[r].pc = "wait"
        /\ reqs[r].t0 > 0
        /\ reqs[r].deadline = reqs[r].nextChange
        /\ reqs[r].deadline < reqs[r].t0 + maxLongPollInterval

(***************************************************************************)
(* The computed config of a state that was read (Spec).                    *)
(***************************************************************************)
\* C40: whatever the store went through, GetClient returns for every stored
\* client a state that has a computed config, so no config request is
\* answered with the internal error for a missing config, and a request past
\* its first read holds a config.
C40_ComputedConfigOnRead ==
    /\ \A id \in DOMAIN clients :
          GetClientState(clients[id], now, nextUuid).ComputedConfig # NoConfig
    /\ \A r \in DOMAIN reqs :
          /\ reqs[r].status # 500
          /\ reqs[r].pc \in {"send", "subscribe", "wait"} => reqs[r].config # NoConfig

\* A request holds the config GetClient returned for a client that got its
\* first user before it was ever read: the config is there without the
\* migration, and it has no version yet.
C40_Witness ==
    \E r \in DOMAIN reqs :
        /\ reqs[r].pc = "send"
        /\ reqs[r].client \in DOMAIN clients
        /\ reqs[r].config # NoConfig
        /\ reqs[r].config.Users # <<>>
        /\ reqs[r].config.Version = NoVersion

=============================================================================
